---- MODULE Spec2Model ----
(***************************************************************************)
(* The pooled, retrying remote-command execution layer:                    *)
(*   retry.Do / retry.DoWithResult   (package retry)                       *)
(*   ssh.NewClient, Client.Run       (internal/ssh/client.go)              *)
(*   Pool.Get, Run, RunAll, Close    (internal/ssh/pool.go)                *)
(* address detection (package ipdetect):                                   *)
(*   ClassifyIP, SelectBestIP, detectPrimaryWithExclusions                 *)
(*   DetectPrimarySSH, GetDockerSubnetsSSH, DetectNetworkInfoSSH,          *)
(*   ResolveNodeAddressSSH                                                 *)
(* and the keepalived planner (package services):                          *)
(*   PrepareKeepalivedDeployment, resolveNodeConfig, findUnusedVIP,        *)
(*   generateKeepalivedConf                                                *)
(*   InstallAndConfigureKeepalived                                         *)
(* the disk preparation (internal/gluster/disk.go):                        *)
(*   DetectAvailableDisks, isOSDisk, FormatAndMountDisk                    *)
(* and the geolocation lookup (internal/geolocation/geolocation.go):       *)
(*   DetectGeoLocation, DetectGeoLocationBatch                             *)
(*                                                                         *)
(* Spec      : one RunAll fan-out and independent Pool.Run callers running *)
(*             concurrently against one Pool, with cancellation.           *)
(* SpecRunAll: one RunAll fan-out alone, under fair scheduling.            *)
(* SpecClose : that fan-out with Pool.Close called at any moment.          *)
(* SpecRetry : one call of retry.Do / DoWithResult with a policy drawn     *)
(*             from bounded sets and an operation that fails or succeeds   *)
(*             freely.                                                     *)
(* SpecClassify: ClassifyIP applied to every pair of leading octets.       *)
(* SpecIP    : the three selection functions applied to bounded address    *)
(*             lists and sets of excluded subnets.                         *)
(* SpecDetect: one call of DetectPrimarySSH, command by command, with the  *)
(*             node's replies chosen freely.                               *)
(* SpecResolve: one call of ResolveNodeAddressSSH, likewise.               *)
(* SpecVRRP  : PrepareKeepalivedDeployment over bounded configurations and *)
(*             networks, probe by probe, the installation of its result,   *)
(*             and a second call before or after that installation.        *)
(* SpecInstall: InstallAndConfigureKeepalived, command by command, each    *)
(*             command failing or succeeding freely.                       *)
(* SpecFormat: FormatAndMountDisk, command by command, on a device in any  *)
(*             state, and a second call for the same device.               *)
(* SpecDisks : DetectAvailableDisks over the disks of a node, check by     *)
(*             check.                                                      *)
(* SpecGeo   : DetectGeoLocationBatch, one goroutine per hostname.         *)
(* Durations are counted in whole units (seconds for the SSH policy).      *)
(***************************************************************************)
EXTENDS Integers, Sequences, FiniteSets, TLC

\* ------------------------------------------------------------------ bounds
\* Goroutines using the pool: the first Len(hosts) of them are the ones RunAll
\* starts, the others call Pool.Run on their own.
MaxProcs == 2
\* Calls of Pool.Close.
MaxCloses == 1
\* Largest MaxAttempts / backoff values of the policies SpecRetry draws.
MaxAttemptsBound == 3
MaxBackoffBound == 3

\* --------------------------------------------------------- policy presets
\* retry.SSHConfig: 3 attempts, 1s initial, 10s cap, multiplier 2.0.
SSHMaxAttempts == 3
SSHInitialBackoff == 1
SSHMaxBackoff == 10
SSHBackoffMultiple == 2

SSHConfig(operation) ==
    [MaxAttempts |-> SSHMaxAttempts, InitialBackoff |-> SSHInitialBackoff,
     MaxBackoff |-> SSHMaxBackoff,
     MultNum |-> SSHBackoffMultiple, MultDen |-> 1,
     Operation |-> operation]

\* ------------------------------------------------------------ processes
Procs == 1..MaxProcs
NoProc == 0
Ctxs == {"ctxA", "ctxB"}

\* ---------------------------------------------------------------- hosts
Hosts == {"hA", "hB", "hC"}

\* Pool.authConfigs: hA authenticates with a key, hB with a password, hC has
\* no entry.
authConfigs ==
    [h \in {"hA", "hB"} |->
        IF h = "hA"
        THEN [PrivateKeyPEM |-> "pem", PrivateKeyPath |-> "", Password |-> ""]
        ELSE [PrivateKeyPEM |-> "", PrivateKeyPath |-> "", Password |-> "pw"]]

\* ---------------------------------------------------------------- errors
Nil == [kind |-> "nil"]
\* ctx.Err() of a cancelled context.
CtxErr == [kind |-> "context canceled"]

\* An error text is the sequence of its phrases; strings.Contains is phrase
\* membership.
Contains(msg, phrase) == \E i \in DOMAIN msg : msg[i] = phrase

isRetryableNetworkError(e) ==
    /\ e # Nil
    /\ \/ Contains(e.msg, "connection refused")
       \/ Contains(e.msg, "timeout")
       \/ Contains(e.msg, "temporary failure")
       \/ Contains(e.msg, "network is unreachable")
       \/ Contains(e.msg, "no route to host")

isRetryableSSHError(e) ==
    /\ e # Nil
    /\ \/ Contains(e.msg, "unable to authenticate")
       \/ Contains(e.msg, "handshake failed")
       \/ Contains(e.msg, "connection reset")
       \/ Contains(e.msg, "broken pipe")

\* What net.Dialer.DialContext can fail with.
DialErrors ==
    { [kind |-> "net", msg |-> <<"dial tcp", "connect", "connection refused">>],
      [kind |-> "net", msg |-> <<"dial tcp", "lookup", "no such host">>] }
DialCancelled == [kind |-> "net", msg |-> <<"dial tcp", "operation was canceled">>]
\* What ssh.NewClientConn can fail with.
HandshakeErrors ==
    { [kind |-> "ssh", msg |-> <<"ssh", "handshake failed", "unable to authenticate">>],
      [kind |-> "ssh", msg |-> <<"ssh", "host key mismatch">>] }
\* What the operation of SpecRetry can fail with.
OpErrors == { [kind |-> "op", msg |-> <<"e1">>], [kind |-> "op", msg |-> <<"e2">>] }

\* The closure NewClient gives to retry.Do wraps the dial / handshake error.
DialFailure(e) ==
    IF isRetryableNetworkError(e)
    THEN [kind |-> "failed to dial", cause |-> e]
    ELSE [kind |-> "failed to dial (non-retryable)", cause |-> e]

HandshakeFailure(e) ==
    IF isRetryableSSHError(e)
    THEN [kind |-> "failed to establish ssh connection", cause |-> e]
    ELSE [kind |-> "failed to establish ssh connection (non-retryable)", cause |-> e]

VARIABLES
    clients,        \* Pool.clients: host -> Client (a function on the pooled hosts)
    mu,             \* Pool.mu: the goroutine holding the write lock, or NoProc
    nextClient,     \* identity of the next Client NewClient returns
    closedClients,  \* Clients whose Close has been called
    dialers,        \* history: the goroutines whose Get has invoked NewClient
    created,        \* host -> number of Clients NewClient has returned
    closes,         \* number of Pool.Close calls so far
    closeRet,       \* what the last Pool.Close returned
    closeFailed,    \* history: the hosts whose Client.Close failed in that call
    cancelled,      \* the contexts that have been cancelled
    pc,             \* goroutine -> position
    op,             \* goroutine -> "Run" (a caller of its own), "RunAll" (fan-out), "Do"
    host,           \* goroutine -> host argument
    ret,            \* goroutine -> what Get / Run returned
    cl,             \* goroutine -> Client that Get returned (0: none)
    cfg,            \* goroutine -> retry.Config of its Do call
    attempt,        \* goroutine -> Do's attempt
    backoff,        \* goroutine -> Do's backoff
    err,            \* goroutine -> Do's err (what fn returned last)
    doRet,          \* goroutine -> what Do returned
    calls,          \* goroutine -> number of times Do has called fn
    waits,          \* goroutine -> the backoff waits Do has started, in order
    wake,           \* goroutine -> which case woke its select ("none", "ctx", "timer", "errChan")
    cmd,            \* goroutine -> state of the goroutine running session.Run
    buf,            \* goroutine -> stdoutBuf / stderrBuf of its session
    errChan,        \* goroutine -> errChan (sequence, capacity 1)
    killed,         \* goroutine -> session.Signal(SIGKILL) has been sent
    hosts,          \* RunAll's hosts argument
    spawned,        \* RunAll: number of goroutines started
    wg,             \* RunAll: the WaitGroup counter
    results,        \* RunAll: the results map
    mainPc,         \* RunAll: position of the calling goroutine
    runAllRet,      \* RunAll: the map it returned
    hist,           \* history of the call in progress, goroutine -> first: "cmd" when
                    \* its command completed under a live context, "ctx" when the
                    \* context was cancelled while its command was executing;
                    \* sel: what its select found ready when it was entered
    overlap,        \* history: the pairs of goroutines that have been inside Pool.Get
                    \* for the same host at the same time
    ips,            \* address detection: the candidate addresses, in the order found
    dockerSubnets,  \* address detection: the excluded (Docker network) subnets
    ipRes,          \* address detection: what the functions returned
    overlayProvider,\* DetectPrimarySSH: its overlayProvider argument
    dpc,            \* DetectPrimarySSH: position
    issued,         \* DetectPrimarySSH: the commands run on the node so far, in order,
                    \* each with the node's reply
    dpRet,          \* DetectPrimarySSH: what it returned
    networkIDs,     \* GetDockerSubnetsSSH: the listed networks not yet inspected
    subnetsSSH,     \* GetDockerSubnetsSSH: its subnets, those collected so far
    kaCfg,          \* keepalived: the declared configuration (cfg): the global
                    \* settings and the enabled nodes with their overrides
    lan,            \* keepalived: the first node's network: its interfaces, the
                    \* addresses in use, whether commands can fail in transport
    kpc,            \* PrepareKeepalivedDeployment / InstallAndConfigureKeepalived:
                    \* position
    prep,           \* PrepareKeepalivedDeployment and findUnusedVIP: locals
    probeLog,       \* findUnusedVIP: the arping probes started and returned, in order
    deployment,     \* PrepareKeepalivedDeployment: what it returned
    run,            \* which run this is, what the run before returned, whether it
                    \* was deployed
    confs,          \* InstallAndConfigureKeepalived: the keepalived.conf written
                    \* to each node
    \* InstallAndConfigureKeepalived, command by command
    cmdLog,         \* the commands run so far: node, step, what Run returned
    ipc,            \* the node and the step the installer is at
    installRet,     \* what InstallAndConfigureKeepalived returned
    \* FormatAndMountDisk (gluster/disk.go)
    dev,            \* the device on the node: filesystem, mountpoint, fstab lines
    fpc,            \* where FormatAndMountDisk is
    floc,           \* its locals: currentMountpoint, fsType, isMounted,
                    \* fstabExists, the attempt of retry.Do
    fmtLog,         \* the commands it has run: run, command, whether Run
                    \* returned nil, the filesystem the device held
    fmtRet,         \* what it returned
    frun,           \* which call this is and what the call before returned
    \* DetectAvailableDisks (gluster/disk.go)
    blk,            \* the node's block devices of type disk, as lsblk lists them
    lpc,            \* where DetectAvailableDisks is: step and line
    disks,          \* the disks it has accepted
    disksRet,       \* what it returned
    \* DetectGeoLocationBatch (geolocation/geolocation.go)
    hostnames,      \* the hostnames argument
    gor,            \* the goroutines, one per hostname: position, publicIP,
                    \* the GeoInfo DetectGeoLocation returned
    resultChan,     \* the buffered channel of {hostname, geoInfo}
    batch,          \* DetectGeoLocationBatch itself: step, loop index, results
    panicked        \* a goroutine has panicked: the process is gone

\* RunAll hands its own context to every goroutine it starts; the independent
\* callers bring another one.
CtxOf(g) == IF g <= Len(hosts) THEN "ctxA" ELSE "ctxB"

poolVars == <<clients, mu, nextClient, closedClients, dialers, created>>
closeVars == <<closes, closeRet, closeFailed>>
callVars == <<op, host, ret, cl>>
doVars == <<cfg, attempt, backoff, err, doRet, calls, waits>>
runVars == <<cmd, buf, errChan, killed>>
runAllVars == <<hosts, spawned, wg, results, mainPc, runAllRet>>
sshVars == <<poolVars, closeVars, cancelled, pc, callVars, doVars, wake, runVars, runAllVars,
             hist, overlap>>
ipVars == <<ips, dockerSubnets, ipRes, overlayProvider, dpc, issued, dpRet, networkIDs, subnetsSSH>>
kaVars == <<kaCfg, lan, kpc, prep, probeLog, deployment, run, confs>>
instVars == <<cmdLog, ipc, installRet>>
fmtVars == <<dev, fpc, floc, fmtLog, fmtRet, frun>>
diskVars == <<blk, lpc, disks, disksRet>>
geoVars == <<hostnames, gor, resultChan, batch, panicked>>
extVars == <<instVars, fmtVars, diskVars, geoVars>>
vars == <<sshVars, ipVars, kaVars, extVars>>

NoConfig == [MaxAttempts |-> 0, InitialBackoff |-> 0, MaxBackoff |-> 0,
             MultNum |-> 1, MultDen |-> 1, Operation |-> <<>>]
EmptyBuf == [stdout |-> "", stderr |-> ""]
NoRet == [kind |-> "pending"]
NoHist == [first |-> "none", sel |-> "none"]

\* All sequences over S of length at most n.
SeqUpTo(S, n) == UNION { [1..k -> S] : k \in 0..n }

\* The state every goroutine starts in.
InitProcs ==
    /\ pc = [g \in Procs |-> "idle"]
    /\ op = [g \in Procs |-> "none"]
    /\ host = [g \in Procs |-> "none"]
    /\ ret = [g \in Procs |-> NoRet]
    /\ cl = [g \in Procs |-> 0]
    /\ cfg = [g \in Procs |-> NoConfig]
    /\ attempt = [g \in Procs |-> 0]
    /\ backoff = [g \in Procs |-> 0]
    /\ err = [g \in Procs |-> Nil]
    /\ doRet = [g \in Procs |-> NoRet]
    /\ calls = [g \in Procs |-> 0]
    /\ waits = [g \in Procs |-> <<>>]
    /\ wake = [g \in Procs |-> "none"]
    /\ cmd = [g \in Procs |-> "none"]
    /\ buf = [g \in Procs |-> EmptyBuf]
    /\ errChan = [g \in Procs |-> <<>>]
    /\ killed = [g \in Procs |-> FALSE]
    /\ hist = [g \in Procs |-> NoHist]
    /\ overlap = {}

\* DetectPrimarySSH has not been called.
InitDetectIdle ==
    /\ overlayProvider = <<>>
    /\ dpc = "idle"
    /\ issued = <<>>
    /\ dpRet = NoRet
    /\ networkIDs = <<>>
    /\ subnetsSSH = {}

\* PrepareKeepalivedDeployment has not been called.
InitInstIdle ==
    /\ cmdLog = <<>>
    /\ ipc = [node |-> 0, step |-> "idle"]
    /\ installRet = NoRet

NoLocals == [currentMountpoint |-> "", fsType |-> "", isMounted |-> FALSE,
             fstabExists |-> FALSE, attempt |-> 0]

InitFormatIdle ==
    /\ dev = NoRet
    /\ fpc = "idle"
    /\ floc = NoLocals
    /\ fmtLog = <<>>
    /\ fmtRet = NoRet
    /\ frun = NoRet

InitDiskIdle ==
    /\ blk = <<>>
    /\ lpc = [step |-> "idle", line |-> 0]
    /\ disks = <<>>
    /\ disksRet = NoRet

InitGeoIdle ==
    /\ hostnames = <<>>
    /\ gor = <<>>
    /\ resultChan = <<>>
    /\ batch = [step |-> "idle", i |-> 0, results |-> <<>>]
    /\ panicked = FALSE

InitExtIdle ==
    /\ InitInstIdle
    /\ InitFormatIdle
    /\ InitDiskIdle
    /\ InitGeoIdle

InitKAIdle ==
    /\ kaCfg = NoRet
    /\ lan = NoRet
    /\ kpc = "idle"
    /\ prep = NoRet
    /\ probeLog = <<>>
    /\ deployment = NoRet
    /\ run = NoRet
    /\ confs = <<>>

\* No address detection is going on.
InitIPIdle ==
    /\ ips = <<>>
    /\ dockerSubnets = {}
    /\ ipRes = NoRet
    /\ InitDetectIdle

\* NewPool (pool.go:19-24): an empty client map.
InitPool ==
    /\ clients = <<>>
    /\ mu = NoProc
    /\ nextClient = 1
    /\ closedClients = {}
    /\ dialers = {}
    /\ created = [h \in Hosts |-> 0]
    /\ closes = 0
    /\ closeRet = NoRet
    /\ closeFailed = {}

\* A fresh pool; RunAll is about to be called with some host list.
Init ==
    /\ InitPool
    /\ InitProcs
    /\ InitIPIdle
    /\ InitKAIdle
    /\ InitExtIdle
    /\ cancelled = {}
    /\ hosts \in SeqUpTo(Hosts, MaxProcs)
    /\ spawned = 0
    /\ wg = 0
    /\ results = <<>>
    /\ mainPc = "spawn"
    /\ runAllRet = NoRet

Pooled(h) == h \in DOMAIN clients

\* ------------------------------------------------------------- Pool.Get
\* The goroutines inside Pool.Get for host h.
InGet(h) ==
    { o \in Procs : host[o] = h /\ pc[o] \in
        {"get_read", "get_lock", "new_client", "do_loop", "fn_handshake", "do_check",
         "do_wait", "do_ret"} }

\* pool.go:66-67: a goroutine of its own calls Pool.Run for some host, which
\* enters Pool.Get.
CallRun(g) ==
    /\ g > Len(hosts)
    /\ pc[g] = "idle"
    /\ op' = [op EXCEPT ![g] = "Run"]
    /\ \E h \in Hosts :
        /\ host' = [host EXCEPT ![g] = h]
        /\ overlap' = overlap \cup { {g, o} : o \in InGet(h) }
    /\ pc' = [pc EXCEPT ![g] = "get_read"]
    /\ UNCHANGED <<ipVars, kaVars, extVars, hist, poolVars, closeVars, cancelled, ret, cl, doVars, wake, runVars, runAllVars>>

\* pool.go:28-34. RLock is granted when no writer holds mu; the read section
\* is the one map lookup.
GetRead(g) ==
    /\ pc[g] = "get_read"
    /\ mu = NoProc
    /\ IF Pooled(host[g])
       THEN /\ cl' = [cl EXCEPT ![g] = clients[host[g]]]
            /\ ret' = [ret EXCEPT ![g] = [kind |-> "client", client |-> clients[host[g]], err |-> Nil]]
            /\ pc' = [pc EXCEPT ![g] = "get_ret"]
       ELSE /\ pc' = [pc EXCEPT ![g] = "get_lock"]
            /\ UNCHANGED <<cl, ret>>
    /\ UNCHANGED <<ipVars, kaVars, extVars, hist, overlap, poolVars, closeVars, cancelled, op, host, doVars, wake, runVars, runAllVars>>

GetOk(c) == [kind |-> "client", client |-> c, err |-> Nil]
GetErr(e) == [kind |-> "error", client |-> 0, err |-> e]

\* Fault: Get without the second look at the map after taking the lock.
GetLockNoRecheck(g) ==
    /\ pc[g] = "get_lock"
    /\ mu = NoProc
    /\ IF host[g] \notin DOMAIN authConfigs
       THEN /\ ret' = [ret EXCEPT ![g] =
                        GetErr([kind |-> "no authentication config found for host",
                                host |-> host[g]])]
            /\ pc' = [pc EXCEPT ![g] = "get_ret"]
            /\ UNCHANGED mu
       ELSE /\ mu' = g
            /\ pc' = [pc EXCEPT ![g] = "new_client"]
            /\ UNCHANGED ret
    /\ UNCHANGED <<ipVars, kaVars, extVars, hist, overlap, clients, nextClient, closedClients, dialers, created,
                   closeVars, cancelled, op, host, cl, doVars, wake, runVars, runAllVars>>

\* Fault: Get creating the connection without holding the lock.
GetLockNoMutex(g) ==
    /\ pc[g] = "get_lock"
    /\ IF Pooled(host[g])
       THEN /\ cl' = [cl EXCEPT ![g] = clients[host[g]]]
            /\ ret' = [ret EXCEPT ![g] = GetOk(clients[host[g]])]
            /\ pc' = [pc EXCEPT ![g] = "get_ret"]
       ELSE IF host[g] \notin DOMAIN authConfigs
       THEN /\ ret' = [ret EXCEPT ![g] =
                        GetErr([kind |-> "no authentication config found for host",
                                host |-> host[g]])]
            /\ pc' = [pc EXCEPT ![g] = "get_ret"]
            /\ UNCHANGED cl
       ELSE /\ pc' = [pc EXCEPT ![g] = "new_client"]
            /\ UNCHANGED <<ret, cl>>
    /\ UNCHANGED <<ipVars, kaVars, extVars, hist, overlap, poolVars, closeVars, cancelled, op, host, doVars, wake,
                   runVars, runAllVars>>

\* pool.go:37-52. Lock, the second look at the map, the auth lookup. The lock
\* stays held (defer Unlock) until Get returns.
GetLock(g) ==
    /\ pc[g] = "get_lock"
    /\ mu = NoProc
    /\ IF Pooled(host[g])
       THEN /\ cl' = [cl EXCEPT ![g] = clients[host[g]]]
            /\ ret' = [ret EXCEPT ![g] = GetOk(clients[host[g]])]
            /\ pc' = [pc EXCEPT ![g] = "get_ret"]
            /\ UNCHANGED mu
       ELSE IF host[g] \notin DOMAIN authConfigs
       THEN /\ ret' = [ret EXCEPT ![g] =
                        GetErr([kind |-> "no authentication config found for host",
                                host |-> host[g]])]
            /\ pc' = [pc EXCEPT ![g] = "get_ret"]
            /\ UNCHANGED <<mu, cl>>
       ELSE /\ mu' = g
            /\ pc' = [pc EXCEPT ![g] = "new_client"]
            /\ UNCHANGED <<ret, cl>>
    /\ UNCHANGED <<ipVars, kaVars, extVars, hist, overlap, clients, nextClient, closedClients, dialers, created,
                   closeVars, cancelled, op, host, doVars, wake, runVars, runAllVars>>

\* client.go:36-79: the authentication methods of an AuthConfig, or the error
\* NewClient returns before it dials.
NewClientAuth(auth) ==
    IF auth.PrivateKeyPEM # ""
    THEN IF auth.PrivateKeyPEM = "garbage"
         THEN [kind |-> "failed to parse private key"]
         ELSE Nil
    ELSE IF auth.PrivateKeyPath # ""
    THEN IF auth.PrivateKeyPath = "missing"
         THEN [kind |-> "failed to read private key"]
         ELSE IF auth.PrivateKeyPath = "garbage"
         THEN [kind |-> "failed to parse private key"]
         ELSE Nil
    ELSE IF auth.Password # ""
    THEN Nil
    ELSE [kind |-> "no authentication method provided"]

GetFailed(h, e) == [kind |-> "failed to create ssh client", host |-> h, cause |-> e]

\* client.go:35-103 under pool.go:54: NewClient is entered with the write lock
\* held; it builds the auth methods and enters retry.Do with the SSH policy.
NewClient(g) ==
    /\ pc[g] = "new_client"
    /\ dialers' = dialers \cup {g}
    /\ LET a == NewClientAuth(authConfigs[host[g]]) IN
       IF a # Nil
       THEN /\ ret' = [ret EXCEPT ![g] = GetErr(GetFailed(host[g], a))]
            /\ mu' = NoProc
            /\ pc' = [pc EXCEPT ![g] = "get_ret"]
            /\ UNCHANGED doVars
       ELSE /\ cfg' = [cfg EXCEPT ![g] = SSHConfig(<<"ssh-connect", host[g]>>)]
            /\ attempt' = [attempt EXCEPT ![g] = 1]
            /\ backoff' = [backoff EXCEPT ![g] = SSHInitialBackoff]
            /\ calls' = [calls EXCEPT ![g] = 0]
            /\ waits' = [waits EXCEPT ![g] = <<>>]
            /\ pc' = [pc EXCEPT ![g] = "do_loop"]
            /\ UNCHANGED <<ret, mu, err, doRet>>
    /\ UNCHANGED <<ipVars, kaVars, extVars, hist, overlap, clients, nextClient, closedClients, created, closeVars,
                   cancelled, op, host, cl, wake, runVars, runAllVars>>

\* ------------------------------------------------------------- retry.Do
DoOk(g, res) ==
    [kind |-> "ok", op |-> cfg[g].Operation, attempts |-> attempt[g],
     cause |-> Nil, result |-> res]
DoErr(g, k, n, e) ==
    [kind |-> k, op |-> cfg[g].Operation, attempts |-> n, cause |-> e, result |-> "zero"]

\* Fault: a loop that stops one attempt early.
DoLoopTestStrict(g) == attempt[g] < cfg[g].MaxAttempts

\* part_002:70 (and 117): the loop test.
DoLoopTest(g) == attempt[g] <= cfg[g].MaxAttempts

\* part_002:70 and 108: the loop test fails and Do leaves the loop.
DoExit(g) ==
    /\ pc[g] = "do_loop"
    /\ ~DoLoopTest(g)
    /\ doRet' = [doRet EXCEPT ![g] = DoErr(g, "unexpected retry loop exit", 0, Nil)]
    /\ pc' = [pc EXCEPT ![g] = "do_ret"]
    /\ UNCHANGED <<ipVars, kaVars, extVars, hist, overlap, poolVars, closeVars, cancelled, callVars, cfg, attempt, backoff, err,
                   calls, waits, wake, runVars, runAllVars>>

\* part_002:70-71 and client.go:104-116: the loop test passes, fn is called
\* and the dial of NewClient's closure ends. DialContext fails on a cancelled
\* context.
FnDial(g) ==
    /\ pc[g] = "do_loop"
    /\ DoLoopTest(g)
    /\ op[g] \in {"Run", "RunAll"}
    /\ calls' = [calls EXCEPT ![g] = @ + 1]
    /\ IF CtxOf(g) \in cancelled
       THEN /\ err' = [err EXCEPT ![g] = DialFailure(DialCancelled)]
            /\ pc' = [pc EXCEPT ![g] = "do_check"]
       ELSE \/ /\ pc' = [pc EXCEPT ![g] = "fn_handshake"]
               /\ UNCHANGED err
            \/ \E e \in DialErrors :
               /\ err' = [err EXCEPT ![g] = DialFailure(e)]
               /\ pc' = [pc EXCEPT ![g] = "do_check"]
    /\ UNCHANGED <<ipVars, kaVars, extVars, hist, overlap, poolVars, closeVars, cancelled, callVars, cfg, attempt, backoff, doRet,
                   waits, wake, runVars, runAllVars>>

\* client.go:118-131: the handshake of NewClient's closure.
FnHandshake(g) ==
    /\ pc[g] = "fn_handshake"
    /\ \/ err' = [err EXCEPT ![g] = Nil]
       \/ \E e \in HandshakeErrors : err' = [err EXCEPT ![g] = HandshakeFailure(e)]
    /\ pc' = [pc EXCEPT ![g] = "do_check"]
    /\ UNCHANGED <<ipVars, kaVars, extVars, hist, overlap, poolVars, closeVars, cancelled, callVars, cfg, attempt, backoff, doRet,
                   calls, waits, wake, runVars, runAllVars>>

\* part_002:70-71 (117-118): the loop test passes and fn is called; the
\* operation of SpecRetry succeeds or fails freely.
FnOp(g) ==
    /\ pc[g] = "do_loop"
    /\ DoLoopTest(g)
    /\ op[g] \in {"Do", "DoWithResult"}
    /\ calls' = [calls EXCEPT ![g] = @ + 1]
    /\ \/ err' = [err EXCEPT ![g] = Nil]
       \/ \E e \in OpErrors : err' = [err EXCEPT ![g] = e]
    /\ pc' = [pc EXCEPT ![g] = "do_check"]
    /\ UNCHANGED <<ipVars, kaVars, extVars, hist, overlap, poolVars, closeVars, cancelled, callVars, cfg, attempt, backoff, doRet,
                   waits, wake, runVars, runAllVars>>

\* The cases of Do's select that are ready when it is entered: ctx.Done() of
\* a cancelled context, and the timer of a wait that is not positive.
DoReady(g) ==
    (IF CtxOf(g) \in cancelled THEN {"ctx"} ELSE {})
    \cup (IF backoff[g] <= 0 THEN {"timer"} ELSE {})

\* What a select finds when it is entered: nothing ready (the goroutine
\* parks), one case ready, or several.
Entered(ready) ==
    IF ready = {} THEN "parked"
    ELSE IF Cardinality(ready) > 1 THEN "several"
    ELSE CHOOSE w \in ready : TRUE

\* part_002:72-94 and 104-105: fn has returned. Success returns; a failure
\* before the last attempt starts the backoff wait (the select is entered);
\* a failure of the last attempt returns it wrapped.
DoCheck(g) ==
    /\ pc[g] = "do_check"
    /\ IF err[g] = Nil
       THEN /\ doRet' = [doRet EXCEPT ![g] =
                          DoOk(g, IF op[g] = "DoWithResult" THEN "res" ELSE "none")]
            /\ pc' = [pc EXCEPT ![g] = "do_ret"]
            /\ UNCHANGED <<waits, wake, hist>>
       ELSE IF attempt[g] < cfg[g].MaxAttempts
       THEN /\ waits' = [waits EXCEPT ![g] = Append(@, backoff[g])]
            /\ IF DoReady(g) = {}
               THEN wake' = [wake EXCEPT ![g] = "none"]
               ELSE \E w \in DoReady(g) : wake' = [wake EXCEPT ![g] = w]
            /\ hist' = [hist EXCEPT ![g].sel = Entered(DoReady(g))]
            /\ pc' = [pc EXCEPT ![g] = "do_wait"]
            /\ UNCHANGED doRet
       ELSE /\ doRet' = [doRet EXCEPT ![g] = DoErr(g, "failed after attempts", attempt[g], err[g])]
            /\ pc' = [pc EXCEPT ![g] = "do_ret"]
            /\ UNCHANGED <<waits, wake, hist>>
    /\ UNCHANGED <<ipVars, kaVars, extVars, overlap, poolVars, closeVars, cancelled, callVars, cfg, attempt, backoff, err,
                   calls, runVars, runAllVars>>

\* Fault: a backoff that grows without the cap.
NextBackoffUncapped(b, c) == (b * c.MultNum) \div c.MultDen

\* part_002:97-100: the next backoff, time.Duration(float64(backoff) * multiple)
\* capped at MaxBackoff.
NextBackoff(b, c) ==
    LET p == (b * c.MultNum) \div c.MultDen
    IN IF p > c.MaxBackoff THEN c.MaxBackoff ELSE p

\* part_002:93-101 and 70: the timer case of the select; the wait is over,
\* the backoff grows and the next iteration begins (err is local to one
\* iteration).
DoContinue(g) ==
    /\ pc[g] = "do_wait"
    /\ wake[g] \in {"none", "timer"}
    /\ backoff' = [backoff EXCEPT ![g] = NextBackoff(backoff[g], cfg[g])]
    /\ attempt' = [attempt EXCEPT ![g] = @ + 1]
    /\ err' = [err EXCEPT ![g] = Nil]
    /\ wake' = [wake EXCEPT ![g] = "none"]
    /\ hist' = [hist EXCEPT ![g].sel = "none"]
    /\ pc' = [pc EXCEPT ![g] = "do_loop"]
    /\ UNCHANGED <<ipVars, kaVars, extVars, overlap, poolVars, closeVars, cancelled, callVars, cfg, doRet, calls, waits,
                   runVars, runAllVars>>

\* Fault: a cancelled wait reported as the failure of the operation.
DoCancelledAsFailure(g) ==
    /\ pc[g] = "do_wait"
    /\ wake[g] = "ctx"
    /\ doRet' = [doRet EXCEPT ![g] = DoErr(g, "failed after attempts", attempt[g], err[g])]
    /\ wake' = [wake EXCEPT ![g] = "none"]
    /\ pc' = [pc EXCEPT ![g] = "do_ret"]
    /\ UNCHANGED <<ipVars, kaVars, extVars, hist, overlap, poolVars, closeVars, cancelled, callVars, cfg, attempt, backoff, err,
                   calls, waits, runVars, runAllVars>>

\* part_002:91-92: the ctx.Done() case of the select.
DoCancelled(g) ==
    /\ pc[g] = "do_wait"
    /\ wake[g] = "ctx"
    /\ doRet' = [doRet EXCEPT ![g] =
                  DoErr(g, "context cancelled after attempts", attempt[g], CtxErr)]
    /\ wake' = [wake EXCEPT ![g] = "none"]
    /\ pc' = [pc EXCEPT ![g] = "do_ret"]
    /\ UNCHANGED <<ipVars, kaVars, extVars, hist, overlap, poolVars, closeVars, cancelled, callVars, cfg, attempt, backoff, err,
                   calls, waits, runVars, runAllVars>>

\* Do's frame is gone once NewClient has taken its result.
DoFrameGone(g) ==
    /\ cfg' = [cfg EXCEPT ![g] = NoConfig]
    /\ attempt' = [attempt EXCEPT ![g] = 0]
    /\ backoff' = [backoff EXCEPT ![g] = 0]
    /\ err' = [err EXCEPT ![g] = Nil]
    /\ doRet' = [doRet EXCEPT ![g] = NoRet]
    /\ calls' = [calls EXCEPT ![g] = 0]
    /\ waits' = [waits EXCEPT ![g] = <<>>]

\* client.go:134-141 and pool.go:55-62: Do has returned to NewClient, and
\* NewClient to Get, which stores the new Client and returns; the deferred
\* Unlock releases mu.
GetFinish(g) ==
    /\ pc[g] = "do_ret"
    /\ op[g] \in {"Run", "RunAll"}
    /\ IF doRet[g].kind = "ok"
       THEN /\ clients' = (host[g] :> nextClient) @@ clients
            /\ nextClient' = nextClient + 1
            /\ created' = [created EXCEPT ![host[g]] = @ + 1]
            /\ cl' = [cl EXCEPT ![g] = nextClient]
            /\ ret' = [ret EXCEPT ![g] = GetOk(nextClient)]
       ELSE /\ ret' = [ret EXCEPT ![g] = GetErr(GetFailed(host[g], doRet[g]))]
            /\ UNCHANGED <<clients, nextClient, created, cl>>
    /\ mu' = NoProc
    /\ pc' = [pc EXCEPT ![g] = "get_ret"]
    /\ DoFrameGone(g)
    /\ hist' = [hist EXCEPT ![g] = NoHist]
    /\ UNCHANGED <<ipVars, kaVars, extVars, overlap, closedClients, dialers, closeVars, cancelled, op, host,
                   wake, runVars, runAllVars>>

\* ------------------------------------------------- Pool.Run, Client.Run
RunRet(out, errout, e) == [kind |-> "run", stdout |-> out, stderr |-> errout, err |-> e]

\* Fault: Pool.Run going on to Client.Run whatever Get returned.
PoolRunIgnoreErr(g) ==
    /\ pc[g] = "get_ret"
    /\ op[g] \in {"Run", "RunAll"}
    /\ pc' = [pc EXCEPT ![g] = "run_start"]
    /\ UNCHANGED <<ipVars, kaVars, extVars, hist, overlap, poolVars, closeVars, cancelled, callVars, doVars, wake, runVars,
                   runAllVars>>

\* pool.go:67-72: Pool.Run after Get has returned.
PoolRun(g) ==
    /\ pc[g] = "get_ret"
    /\ op[g] \in {"Run", "RunAll"}
    /\ IF ret[g].err # Nil
       THEN /\ ret' = [ret EXCEPT ![g] = RunRet("", "", ret[g].err)]
            /\ pc' = [pc EXCEPT ![g] = "run_ret"]
       ELSE /\ pc' = [pc EXCEPT ![g] = "run_start"]
            /\ UNCHANGED ret
    /\ UNCHANGED <<ipVars, kaVars, extVars, hist, overlap, poolVars, closeVars, cancelled, op, host, cl, doVars, wake, runVars,
                   runAllVars>>

\* client.go:171-185: NewSession, which fails on a connection that has been
\* closed and may fail on a live one; then the buffers, errChan and the
\* goroutine that runs the command.
RunStart(g) ==
    /\ pc[g] = "run_start"
    /\ \/ /\ cl[g] \notin closedClients
          /\ cmd' = [cmd EXCEPT ![g] = "running"]
          /\ pc' = [pc EXCEPT ![g] = "run_select"]
          /\ UNCHANGED ret
       \/ /\ ret' = [ret EXCEPT ![g] = RunRet("", "", [kind |-> "failed to create session"])]
          /\ pc' = [pc EXCEPT ![g] = "run_ret"]
          /\ UNCHANGED cmd
    /\ UNCHANGED <<ipVars, kaVars, extVars, hist, overlap, poolVars, closeVars, cancelled, op, host, cl, doVars, wake, buf, errChan,
                   killed, runAllVars>>

\* The running command writes output into the session's buffers.
CmdProgress(g) ==
    /\ cmd[g] = "running"
    /\ buf[g] = EmptyBuf
    /\ buf' = [buf EXCEPT ![g] = [stdout |-> "partial out", stderr |-> "partial err"]]
    /\ UNCHANGED <<ipVars, kaVars, extVars, hist, overlap, poolVars, closeVars, cancelled, pc, callVars, doVars, wake, cmd, errChan,
                   killed, runAllVars>>

\* What session.Run can return: nil, a non-zero exit, a transport failure.
CmdOutcomes == { Nil, [kind |-> "exit status 1"], [kind |-> "transport failure"] }

\* client.go:183-185: session.Run returns in its goroutine and the result is
\* sent to errChan; a Run parked in its select is woken by it.
CmdComplete(g) ==
    /\ cmd[g] = "running"
    /\ \E e \in CmdOutcomes :
        /\ errChan' = [errChan EXCEPT ![g] = <<e>>]
        /\ buf' = [buf EXCEPT ![g] = [stdout |-> "out", stderr |-> "err"]]
    /\ cmd' = [cmd EXCEPT ![g] = "finished"]
    /\ wake' = [wake EXCEPT ![g] =
                 IF pc[g] = "run_wait" /\ @ = "none" THEN "errChan" ELSE @]
    /\ hist' = [hist EXCEPT ![g].first =
                 IF @ = "none" /\ CtxOf(g) \notin cancelled THEN "cmd" ELSE @]
    /\ UNCHANGED <<ipVars, kaVars, extVars, overlap, poolVars, closeVars, cancelled, pc, callVars, doVars, killed, runAllVars>>

\* The cases of Run's select that are ready when it is entered.
RunReady(g) ==
    (IF CtxOf(g) \in cancelled THEN {"ctx"} ELSE {})
    \cup (IF errChan[g] # <<>> THEN {"errChan"} ELSE {})

\* client.go:187: the select is entered. With no case ready the goroutine
\* parks; with several ready Go picks one of them at random.
RunSelect(g) ==
    /\ pc[g] = "run_select"
    /\ IF RunReady(g) = {}
       THEN wake' = [wake EXCEPT ![g] = "none"]
       ELSE \E w \in RunReady(g) : wake' = [wake EXCEPT ![g] = w]
    /\ hist' = [hist EXCEPT ![g].sel = Entered(RunReady(g))]
    /\ pc' = [pc EXCEPT ![g] = "run_wait"]
    /\ UNCHANGED <<ipVars, kaVars, extVars, overlap, poolVars, closeVars, cancelled, callVars, doVars, runVars, runAllVars>>

\* Fault: the ctx.Done() case without the kill signal.
RunKillNoSignal(g) ==
    /\ pc[g] = "run_wait"
    /\ wake[g] = "ctx"
    /\ pc' = [pc EXCEPT ![g] = "run_killed"]
    /\ UNCHANGED <<ipVars, kaVars, extVars, hist, overlap, poolVars, closeVars, cancelled, callVars, doVars, wake, runVars,
                   runAllVars>>

\* client.go:188-189: the ctx.Done() case; the kill signal is sent.
RunKill(g) ==
    /\ pc[g] = "run_wait"
    /\ wake[g] = "ctx"
    /\ killed' = [killed EXCEPT ![g] = TRUE]
    /\ pc' = [pc EXCEPT ![g] = "run_killed"]
    /\ UNCHANGED <<ipVars, kaVars, extVars, hist, overlap, poolVars, closeVars, cancelled, callVars, doVars, wake, cmd, buf, errChan,
                   runAllVars>>

\* client.go:175: Run returns and the deferred session.Close ends the
\* session; its buffers, channel and goroutine are out of reach.
SessionGone(g) ==
    /\ cmd' = [cmd EXCEPT ![g] = "closed"]
    /\ buf' = [buf EXCEPT ![g] = EmptyBuf]
    /\ errChan' = [errChan EXCEPT ![g] = <<>>]
    /\ killed' = [killed EXCEPT ![g] = FALSE]
    /\ wake' = [wake EXCEPT ![g] = "none"]
    /\ hist' = [hist EXCEPT ![g] = NoHist]

\* client.go:190: return "", "", ctx.Err(); the deferred session.Close ends
\* the session.
RunReturnCtx(g) ==
    /\ pc[g] = "run_killed"
    /\ ret' = [ret EXCEPT ![g] = RunRet("", "", CtxErr)]
    /\ SessionGone(g)
    /\ pc' = [pc EXCEPT ![g] = "run_ret"]
    /\ UNCHANGED <<ipVars, kaVars, extVars, overlap, poolVars, closeVars, cancelled, op, host, cl, doVars, runAllVars>>

\* Fault: the errChan case looking at the context again before it returns.
RunReturnCmdCheckCtx(g) ==
    /\ pc[g] = "run_wait"
    /\ wake[g] = "errChan"
    /\ ret' = [ret EXCEPT ![g] =
                IF CtxOf(g) \in cancelled THEN RunRet("", "", CtxErr)
                ELSE RunRet(buf[g].stdout, buf[g].stderr, Head(errChan[g]))]
    /\ SessionGone(g)
    /\ pc' = [pc EXCEPT ![g] = "run_ret"]
    /\ UNCHANGED <<ipVars, kaVars, extVars, overlap, poolVars, closeVars, cancelled, op, host, cl, doVars, runAllVars>>

\* client.go:191-192: the errChan case; the buffers and the command's error
\* are returned.
RunReturnCmd(g) ==
    /\ pc[g] = "run_wait"
    /\ wake[g] = "errChan"
    /\ ret' = [ret EXCEPT ![g] = RunRet(buf[g].stdout, buf[g].stderr, Head(errChan[g]))]
    /\ SessionGone(g)
    /\ pc' = [pc EXCEPT ![g] = "run_ret"]
    /\ UNCHANGED <<ipVars, kaVars, extVars, overlap, poolVars, closeVars, cancelled, op, host, cl, doVars, runAllVars>>

\* ----------------------------------------------------------- Pool.RunAll
\* pool.go:90-109: the loop starts one goroutine per entry of hosts.
RunAllSpawn ==
    /\ mainPc = "spawn"
    /\ spawned < Len(hosts)
    /\ spawned' = spawned + 1
    /\ wg' = wg + 1
    /\ pc' = [pc EXCEPT ![spawned + 1] = "get_read"]
    /\ op' = [op EXCEPT ![spawned + 1] = "RunAll"]
    /\ host' = [host EXCEPT ![spawned + 1] = hosts[spawned + 1]]
    /\ overlap' = overlap \cup { {spawned + 1, o} : o \in InGet(hosts[spawned + 1]) }
    /\ UNCHANGED <<ipVars, kaVars, extVars, hist, poolVars, closeVars, cancelled, ret, cl, doVars, wake, runVars, hosts,
                   results, mainPc, runAllRet>>

\* pool.go:95-107 and 93: p.Run has returned in a fan-out goroutine; the
\* result is stored under the results mutex and the WaitGroup is released.
RunAllStore(g) ==
    /\ pc[g] = "run_ret"
    /\ op[g] = "RunAll"
    /\ results' = (host[g] :> [Stdout |-> ret[g].stdout, Stderr |-> ret[g].stderr,
                               Err |-> ret[g].err]) @@ results
    /\ wg' = wg - 1
    /\ pc' = [pc EXCEPT ![g] = "done"]
    /\ UNCHANGED <<ipVars, kaVars, extVars, hist, overlap, poolVars, closeVars, cancelled, callVars, doVars, wake, runVars, hosts,
                   spawned, mainPc, runAllRet>>

\* Fault: RunAll returning without wg.Wait().
RunAllReturnNoWait ==
    /\ mainPc = "spawn"
    /\ spawned = Len(hosts)
    /\ runAllRet' = results
    /\ mainPc' = "returned"
    /\ UNCHANGED <<ipVars, kaVars, extVars, hist, overlap, poolVars, closeVars, cancelled, pc, callVars, doVars, wake, runVars, hosts,
                   spawned, wg, results>>

\* pool.go:111-112: wg.Wait() and the return of the map.
RunAllReturn ==
    /\ mainPc = "spawn"
    /\ spawned = Len(hosts)
    /\ wg = 0
    /\ runAllRet' = results
    /\ mainPc' = "returned"
    /\ UNCHANGED <<ipVars, kaVars, extVars, hist, overlap, poolVars, closeVars, cancelled, pc, callVars, doVars, wake, runVars, hosts,
                   spawned, wg, results>>

\* ------------------------------------------------------------ Pool.Close
\* Fault: Close giving up at the first Client whose Close fails.
CloseStopAtFirst ==
    /\ closes < MaxCloses
    /\ mu = NoProc
    /\ \/ /\ closeRet' = Nil
          /\ closeFailed' = {}
          /\ closedClients' = closedClients \cup { clients[h] : h \in DOMAIN clients }
       \/ \E f \in DOMAIN clients :
          /\ closeRet' = [kind |-> "errors closing connections", hosts |-> {f}]
          /\ closeFailed' = {f}
          /\ closedClients' = closedClients \cup {clients[f]}
    /\ clients' = <<>>
    /\ closes' = closes + 1
    /\ UNCHANGED <<ipVars, kaVars, extVars, hist, overlap, mu, nextClient, dialers, created, cancelled, pc,
                   callVars, doVars, wake, runVars, runAllVars>>

\* pool.go:116-134: under the write lock Close is called on every pooled
\* Client, the failures are collected, the map is replaced by an empty one.
Close ==
    /\ closes < MaxCloses
    /\ mu = NoProc
    /\ \E failing \in SUBSET (DOMAIN clients) :
        /\ closeFailed' = failing
        /\ closeRet' = IF failing = {} THEN Nil
                       ELSE [kind |-> "errors closing connections", hosts |-> failing]
    /\ closedClients' = closedClients \cup { clients[h] : h \in DOMAIN clients }
    /\ clients' = <<>>
    /\ closes' = closes + 1
    /\ UNCHANGED <<ipVars, kaVars, extVars, hist, overlap, mu, nextClient, dialers, created, cancelled, pc,
                   callVars, doVars, wake, runVars, runAllVars>>

\* ---------------------------------------------------------- cancellation
\* Fault: a cancellation that no waiting goroutine notices.
CancelNoWake(c) ==
    /\ c \notin cancelled
    /\ \E g \in Procs : CtxOf(g) = c
    /\ cancelled' = cancelled \cup {c}
    /\ UNCHANGED <<ipVars, kaVars, extVars, hist, wake, overlap, poolVars, closeVars, pc, callVars, doVars, runVars,
                   runAllVars>>

\* A context some goroutine uses is cancelled: ctx.Done() is closed, which
\* wakes every goroutine parked in a select on it.
Cancel(c) ==
    /\ c \notin cancelled
    /\ \E g \in Procs : CtxOf(g) = c
    /\ cancelled' = cancelled \cup {c}
    /\ wake' = [g \in Procs |->
                 IF CtxOf(g) = c /\ pc[g] \in {"do_wait", "run_wait"} /\ wake[g] = "none"
                 THEN "ctx" ELSE wake[g]]
    /\ hist' = [g \in Procs |->
                 IF CtxOf(g) = c /\ cmd[g] = "running" /\ hist[g].first = "none"
                 THEN [hist[g] EXCEPT !.first = "ctx"]
                 ELSE hist[g]]
    /\ UNCHANGED <<ipVars, kaVars, extVars, overlap, poolVars, closeVars, pc, callVars, doVars, runVars, runAllVars>>

\* --------------------------------------------------------- specifications
Next ==
    \/ \E g \in Procs :
        \/ CallRun(g)
        \/ GetRead(g)
        \/ GetLock(g)
        \/ NewClient(g)
        \/ FnDial(g)
        \/ FnHandshake(g)
        \/ DoCheck(g)
        \/ DoContinue(g)
        \/ DoCancelled(g)
        \/ GetFinish(g)
        \/ PoolRun(g)
        \/ RunStart(g)
        \/ CmdProgress(g)
        \/ CmdComplete(g)
        \/ RunSelect(g)
        \/ RunKill(g)
        \/ RunReturnCtx(g)
        \/ RunReturnCmd(g)
        \/ RunAllStore(g)
    \/ RunAllSpawn
    \/ RunAllReturn
    \/ \E c \in Ctxs : Cancel(c)

\* One RunAll fan-out and callers of their own on a fresh pool.
Spec == Init /\ [][Next]_vars


\* The steps that are taken once they can be: the goroutines are scheduled,
\* timers fire, dials and handshakes end (both have timeouts). A caller need
\* not call, a remote command need not end, a context need not be cancelled.
FairStep ==
    \/ \E g \in Procs :
        \/ GetRead(g)
        \/ GetLock(g)
        \/ NewClient(g)
        \/ FnDial(g)
        \/ FnHandshake(g)
        \/ DoCheck(g)
        \/ DoContinue(g)
        \/ DoCancelled(g)
        \/ GetFinish(g)
        \/ PoolRun(g)
        \/ RunStart(g)
        \/ RunSelect(g)
        \/ RunKill(g)
        \/ RunReturnCtx(g)
        \/ RunReturnCmd(g)
        \/ RunAllStore(g)
    \/ RunAllSpawn
    \/ RunAllReturn

\* One RunAll fan-out over MaxProcs hosts, and nothing else, under that
\* scheduling.
InitRunAll == Init /\ Len(hosts) = MaxProcs
NextRunAll == FairStep \/ (\E g \in Procs : CmdProgress(g) \/ CmdComplete(g)) \/ Cancel("ctxA")
SpecRunAll == InitRunAll /\ [][NextRunAll]_vars /\ WF_vars(FairStep)

\* The fan-out with Pool.Close called at any moment.
NextClose == NextRunAll \/ Close
SpecClose == InitRunAll /\ [][NextClose]_vars

\* The policies SpecRetry draws: MaxAttempts from 0, backoffs from 0 (a wait
\* that is over at once), caps below and above the initial backoff, and the
\* multipliers 1, 2 and 1.5.
Multipliers == { <<1, 1>>, <<2, 1>>, <<3, 2>> }
RetryConfigs ==
    { [MaxAttempts |-> m, InitialBackoff |-> i, MaxBackoff |-> x,
       MultNum |-> k[1], MultDen |-> k[2], Operation |-> <<"op">>] :
      m \in 0..MaxAttemptsBound, i \in 0..MaxBackoffBound,
      x \in 0..(MaxBackoffBound + 2), k \in Multipliers }

\* The goroutine that calls retry.Do in SpecRetry.
RetryCaller == 1

\* part_002:66-68 (112-115): Do or DoWithResult has been entered with some
\* policy; the context may be cancelled already.
InitRetry ==
    /\ InitPool
    /\ InitIPIdle
    /\ InitKAIdle
    /\ InitExtIdle
    /\ hosts = <<>>
    /\ \E o \in {"Do", "DoWithResult"}, c \in RetryConfigs :
        /\ op = [g \in Procs |-> IF g = RetryCaller THEN o ELSE "none"]
        /\ cfg = [g \in Procs |-> IF g = RetryCaller THEN c ELSE NoConfig]
        /\ backoff = [g \in Procs |-> IF g = RetryCaller THEN c.InitialBackoff ELSE 0]
    /\ pc = [g \in Procs |-> IF g = RetryCaller THEN "do_loop" ELSE "idle"]
    /\ attempt = [g \in Procs |-> IF g = RetryCaller THEN 1 ELSE 0]
    /\ host = [g \in Procs |-> "none"]
    /\ ret = [g \in Procs |-> NoRet]
    /\ cl = [g \in Procs |-> 0]
    /\ err = [g \in Procs |-> Nil]
    /\ doRet = [g \in Procs |-> NoRet]
    /\ calls = [g \in Procs |-> 0]
    /\ waits = [g \in Procs |-> <<>>]
    /\ wake = [g \in Procs |-> "none"]
    /\ cmd = [g \in Procs |-> "none"]
    /\ buf = [g \in Procs |-> EmptyBuf]
    /\ errChan = [g \in Procs |-> <<>>]
    /\ killed = [g \in Procs |-> FALSE]
    /\ hist = [g \in Procs |-> NoHist]
    /\ overlap = {}
    /\ cancelled \in {{}, {CtxOf(RetryCaller)}}
    /\ spawned = 0
    /\ wg = 0
    /\ results = <<>>
    /\ mainPc = "none"
    /\ runAllRet = NoRet

NextRetry ==
    \/ DoExit(RetryCaller)
    \/ FnOp(RetryCaller)
    \/ DoCheck(RetryCaller)
    \/ DoContinue(RetryCaller)
    \/ DoCancelled(RetryCaller)
    \/ Cancel(CtxOf(RetryCaller))

SpecRetry == InitRetry /\ [][NextRetry]_vars

\* ===================================================== address detection
\* IPClass (part_000:27-36).
ClassOther == 0
ClassLoopback == 1
ClassRFC1918 == 2
ClassCGNAT == 3

\* Largest value of an address octet (a byte).
MaxOctet == 255
\* Longest candidate list SpecIP draws.
MaxIPs == 3

\* An entry of an address list: an IPv4 address, an IPv6 address, or text
\* that is no address; up tells whether its interface is up (local mode).
V4(a, b, c, d) == [fam |-> "v4", oct |-> <<a, b, c, d>>, up |-> TRUE]
V6 == [fam |-> "v6", oct |-> <<>>, up |-> TRUE]
NoIP == [fam |-> "none", oct |-> <<>>, up |-> TRUE]
Down(e) == [e EXCEPT !.up = FALSE]

\* net.IP.To4: the four octets, or nil (<<>>).
To4(ip) == IF ip.fam = "v4" THEN ip.oct ELSE <<>>

\* net.IP.IsLoopback for the addresses drawn (the IPv6 one is not ::1).
IsLoopback(ip) == To4(ip) # <<>> /\ To4(ip)[1] = 127

\* Fault: the CGNAT range one second octet too wide.
ClassifyIPWide(ip) ==
    LET ip4 == To4(ip) IN
    IF ip4 = <<>> THEN ClassOther
    ELSE IF IsLoopback(ip) THEN ClassLoopback
    ELSE IF ip4[1] = 100 /\ ip4[2] >= 64 /\ ip4[2] <= 128 THEN ClassCGNAT
    ELSE IF ip4[1] = 10 THEN ClassRFC1918
    ELSE IF ip4[1] = 172 /\ ip4[2] >= 16 /\ ip4[2] <= 31 THEN ClassRFC1918
    ELSE IF ip4[1] = 192 /\ ip4[2] = 168 THEN ClassRFC1918
    ELSE ClassOther

\* part_000:122-149.
ClassifyIP(ip) ==
    LET ip4 == To4(ip) IN
    IF ip4 = <<>> THEN ClassOther
    ELSE IF IsLoopback(ip) THEN ClassLoopback
    ELSE IF ip4[1] = 100 /\ ip4[2] >= 64 /\ ip4[2] <= 127 THEN ClassCGNAT
    ELSE IF ip4[1] = 10 THEN ClassRFC1918
    ELSE IF ip4[1] = 172 /\ ip4[2] >= 16 /\ ip4[2] <= 31 THEN ClassRFC1918
    ELSE IF ip4[1] = 192 /\ ip4[2] = 168 THEN ClassRFC1918
    ELSE ClassOther

\* A subnet is a base address and a prefix length; net.IPNet.Contains
\* compares the leading bits.
Subnet(a, b, c, d, n) == [base |-> <<a, b, c, d>>, bits |-> n]
SubnetContains(n, ip) ==
    LET full == n.bits \div 8
        part == n.bits % 8
    IN /\ To4(ip) # <<>>
       /\ \A i \in 1..full : To4(ip)[i] = n.base[i]
       /\ part > 0 => To4(ip)[full + 1] \div (2 ^ (8 - part)) =
                       n.base[full + 1] \div (2 ^ (8 - part))

\* part_000:162-169.
IsInDockerSubnet(ip, subnets) == \E n \in subnets : SubnetContains(n, ip)

\* The first element of the first non-empty list, or none.
FirstOf(lists, none) ==
    IF \E i \in DOMAIN lists : lists[i] # <<>>
    THEN Head(lists[CHOOSE i \in DOMAIN lists :
                      lists[i] # <<>> /\ \A j \in 1..(i - 1) : lists[j] = <<>>])
    ELSE none

\* part_000:58-118: the addresses of the up interfaces, in order.
detectPrimaryWithExclusions(addrs, subnets) ==
    LET v4 == SelectSeq(addrs, LAMBDA e : e.up /\ To4(e) # <<>>)
        loopback == SelectSeq(v4, LAMBDA e : IsLoopback(e))
        rest == SelectSeq(v4, LAMBDA e : ~IsLoopback(e) /\ ~IsInDockerSubnet(e, subnets))
        cgnat == SelectSeq(rest, LAMBDA e : ClassifyIP(e) = ClassCGNAT)
        rfc1918 == SelectSeq(rest, LAMBDA e : ClassifyIP(e) = ClassRFC1918)
        other == SelectSeq(rest, LAMBDA e : ClassifyIP(e) \notin {ClassCGNAT, ClassRFC1918})
        best == FirstOf(<<cgnat, rfc1918, other, loopback>>, NoIP)
    IN IF best = NoIP
       THEN [ip |-> NoIP, err |-> [kind |-> "ipdetect: no IPv4 address found"]]
       ELSE [ip |-> best, err |-> Nil]

\* Fault: private addresses preferred to overlay ones.
SelectBestIPPrivateFirst(addrs, subnets) ==
    LET v4 == SelectSeq(addrs, LAMBDA e : To4(e) # <<>>)
        rest == SelectSeq(v4, LAMBDA e : ~IsLoopback(e) /\ ~IsInDockerSubnet(e, subnets))
        cgnat == SelectSeq(rest, LAMBDA e : ClassifyIP(e) = ClassCGNAT)
        rfc1918 == SelectSeq(rest, LAMBDA e : ClassifyIP(e) = ClassRFC1918)
        other == SelectSeq(rest, LAMBDA e : ClassifyIP(e) \notin {ClassCGNAT, ClassRFC1918})
    IN FirstOf(<<rfc1918, cgnat, other>>, NoIP)

\* Fault: the Docker subnets not excluded.
SelectBestIPNoExclusion(addrs, subnets) ==
    LET v4 == SelectSeq(addrs, LAMBDA e : To4(e) # <<>>)
        rest == SelectSeq(v4, LAMBDA e : ~IsLoopback(e))
        cgnat == SelectSeq(rest, LAMBDA e : ClassifyIP(e) = ClassCGNAT)
        rfc1918 == SelectSeq(rest, LAMBDA e : ClassifyIP(e) = ClassRFC1918)
        other == SelectSeq(rest, LAMBDA e : ClassifyIP(e) \notin {ClassCGNAT, ClassRFC1918})
    IN FirstOf(<<cgnat, rfc1918, other>>, NoIP)

\* part_000:235-272: the texts are parsed; "" (NoIP) when nothing is suitable.
SelectBestIP(addrs, subnets) ==
    LET v4 == SelectSeq(addrs, LAMBDA e : To4(e) # <<>>)
        rest == SelectSeq(v4, LAMBDA e : ~IsLoopback(e) /\ ~IsInDockerSubnet(e, subnets))
        cgnat == SelectSeq(rest, LAMBDA e : ClassifyIP(e) = ClassCGNAT)
        rfc1918 == SelectSeq(rest, LAMBDA e : ClassifyIP(e) = ClassRFC1918)
        other == SelectSeq(rest, LAMBDA e : ClassifyIP(e) \notin {ClassCGNAT, ClassRFC1918})
    IN FirstOf(<<cgnat, rfc1918, other>>, NoIP)

\* ipdetect/ssh.go:154-207: the node lists its IPv4 addresses without the
\* 127.* ones; the last CGNAT and the first RFC1918 address outside the
\* Docker subnets are kept, CGNAT preferred; nil (NoIP) otherwise.
DetectNetworkInfoSSH(addrs, subnets) ==
    LET lines == SelectSeq(addrs, LAMBDA e : To4(e) # <<>> /\ To4(e)[1] # 127)
        rest == SelectSeq(lines, LAMBDA e : ~IsInDockerSubnet(e, subnets))
        cgnat == SelectSeq(rest, LAMBDA e : ClassifyIP(e) = ClassCGNAT)
        rfc1918 == SelectSeq(rest, LAMBDA e : ClassifyIP(e) = ClassRFC1918)
    IN IF cgnat # <<>> THEN cgnat[Len(cgnat)]
       ELSE IF rfc1918 # <<>> THEN rfc1918[1]
       ELSE NoIP

\* The entries and the Docker subnets SpecIP draws.
AddrPool ==
    { V4(100, 70, 1, 1), V4(10, 0, 0, 5), V4(172, 17, 0, 2), V4(8, 8, 8, 8),
      V4(127, 0, 0, 1), V6, Down(V4(100, 80, 0, 1)) }
SubnetPool ==
    { Subnet(172, 17, 0, 0, 16), Subnet(100, 64, 0, 0, 10), Subnet(127, 0, 0, 0, 8) }

\* The pool side at rest.
InitSSHIdle ==
    /\ InitPool
    /\ InitProcs
    /\ cancelled = {}
    /\ hosts = <<>>
    /\ spawned = 0
    /\ wg = 0
    /\ results = <<>>
    /\ mainPc = "none"
    /\ runAllRet = NoRet

NoIPRes == [local |-> NoRet, remote |-> NoRet, info |-> NoRet, class |-> <<>>]

\* Some addresses and some Docker subnets; nothing selected yet.
InitIP ==
    /\ InitSSHIdle
    /\ InitKAIdle
    /\ InitExtIdle
    /\ ips \in SeqUpTo(AddrPool, MaxIPs)
    /\ dockerSubnets \in SUBSET SubnetPool
    /\ ipRes = NoIPRes
    /\ InitDetectIdle

ipInVars == <<ips, dockerSubnets, overlayProvider, dpc, issued, dpRet, networkIDs, subnetsSSH>>

\* detectPrimaryWithExclusions is called.
SelectLocal ==
    /\ ipRes.local = NoRet
    /\ ipRes' = [ipRes EXCEPT !.local = detectPrimaryWithExclusions(ips, dockerSubnets)]
    /\ UNCHANGED <<sshVars, kaVars, extVars, ipInVars>>

\* SelectBestIP is called.
SelectRemote ==
    /\ ipRes.remote = NoRet
    /\ ipRes' = [ipRes EXCEPT !.remote = SelectBestIP(ips, dockerSubnets)]
    /\ UNCHANGED <<sshVars, kaVars, extVars, ipInVars>>

\* DetectNetworkInfoSSH is called.
SelectInfo ==
    /\ ipRes.info = NoRet
    /\ ipRes' = [ipRes EXCEPT !.info = DetectNetworkInfoSSH(ips, dockerSubnets)]
    /\ UNCHANGED <<sshVars, kaVars, extVars, ipInVars>>

NextIP == SelectLocal \/ SelectRemote \/ SelectInfo
SpecIP == InitIP /\ [][NextIP]_vars

\* Every pair of leading octets, once.
InitClassify ==
    /\ InitSSHIdle
    /\ InitKAIdle
    /\ InitExtIdle
    /\ \E a \in 0..MaxOctet, b \in 0..MaxOctet : ips = <<V4(a, b, 1, 1)>>
    /\ dockerSubnets = {}
    /\ ipRes = NoIPRes
    /\ InitDetectIdle

\* ClassifyIP is called on the address, up to twice.
Classify ==
    /\ Len(ipRes.class) < 2
    /\ ipRes' = [ipRes EXCEPT !.class = Append(@, ClassifyIP(ips[1]))]
    /\ UNCHANGED <<sshVars, kaVars, extVars, ipInVars>>

NextClassify == Classify
SpecClassify == InitClassify /\ [][NextClassify]_vars

\* ------------------------------------------- DetectPrimarySSH (ssh.go:96-143)
\* Texts are sequences: the provider name one of characters, an address text
\* one of tokens (an address entry, "/" or a number).
SlashTok == [fam |-> "/", oct |-> <<>>, up |-> TRUE]
NumTok(n) == [fam |-> "num", oct |-> <<n>>, up |-> TRUE]
\* The node argument: a host name.
node == <<[fam |-> "name", oct |-> <<>>, up |-> TRUE]>>

Upper == <<"A", "B", "C", "D", "E", "F", "G", "H", "I", "J", "K", "L", "M",
           "N", "O", "P", "Q", "R", "S", "T", "U", "V", "W", "X", "Y", "Z">>
Lower == <<"a", "b", "c", "d", "e", "f", "g", "h", "i", "j", "k", "l", "m",
           "n", "o", "p", "q", "r", "s", "t", "u", "v", "w", "x", "y", "z">>

\* strings.ToLower.
ToLower(t) ==
    [i \in DOMAIN t |->
        IF \E k \in DOMAIN Upper : Upper[k] = t[i]
        THEN Lower[CHOOSE k \in DOMAIN Upper : Upper[k] = t[i]]
        ELSE t[i]]

\* strings.TrimSpace: the text between the first and the last character that
\* is not white space.
TrimSpace(t) ==
    LET solid == { i \in DOMAIN t : t[i] \notin {" ", "\n", "\t"} } IN
    IF solid = {} THEN <<>>
    ELSE SubSeq(t, CHOOSE i \in solid : \A j \in solid : i <= j,
                   CHOOSE i \in solid : \A j \in solid : i >= j)

\* strings.Split(t, "/")[0]: the text before the first "/".
SplitSlashFirst(t) ==
    LET at == { i \in DOMAIN t : t[i] = SlashTok } IN
    IF at = {} THEN t
    ELSE SubSeq(t, 1, (CHOOSE i \in at : \A j \in at : i <= j) - 1)

netbird == <<"n", "e", "t", "b", "i", "r", "d">>
tailscale == <<"t", "a", "i", "l", "s", "c", "a", "l", "e">>

NetbirdStatus == "netbird status --json"
TailscaleStatus == "tailscale status --json"
listCmd == "docker network ls --format json"
inspectCmd == "docker network inspect"
HostnameI == "hostname -I"

\* What sshPool.Run gives back for a command: an error, or the output: text
\* that is no JSON, or JSON with the value read from it.
RunFailed == [err |-> [kind |-> "run"], json |-> FALSE, val |-> <<>>]
NotJSON == [err |-> Nil, json |-> FALSE, val |-> <<>>]
JSON(v) == [err |-> Nil, json |-> TRUE, val |-> v]

\* netbirdIp: absent, an address with its mask, a bare address, a mask alone.
NetbirdReplies ==
    { RunFailed, NotJSON, JSON(<<>>),
      JSON(<<V4(100, 70, 1, 1), SlashTok, NumTok(16)>>),
      JSON(<<V4(100, 70, 1, 1)>>),
      JSON(<<SlashTok, NumTok(16)>>) }

\* Self.TailscaleIPs: absent or empty, one address, an IPv4 and an IPv6 one.
TailscaleReplies ==
    { RunFailed, NotJSON, JSON(<<>>),
      JSON(<<<<V4(100, 80, 0, 2)>>>>),
      JSON(<<<<V4(100, 80, 0, 2)>>, <<V6>>>>) }

ProviderPool ==
    { <<>>, netbird, <<" ", "N", "e", "t", "B", "i", "r", "d", " ">>,
      tailscale, <<"T", "A", "I", "L", "S", "C", "A", "L", "E">>,
      <<"n", "o", "n", "e">> }

MaxFields == 2
DetectAddrs == { V4(100, 70, 1, 1), V4(10, 0, 0, 5), V4(172, 17, 0, 2), V4(127, 0, 0, 1) }

\* DetectPrimarySSH has been called for a node with some addresses and some
\* Docker networks.
InitDetect ==
    /\ InitSSHIdle
    /\ InitKAIdle
    /\ InitExtIdle
    /\ ips \in SeqUpTo(DetectAddrs, MaxFields)
    /\ dockerSubnets \in SUBSET SubnetPool
    /\ ipRes = NoIPRes
    /\ overlayProvider \in ProviderPool
    /\ dpc = "start"
    /\ issued = <<>>
    /\ dpRet = NoRet
    /\ networkIDs = <<>>
    /\ subnetsSSH = {}

Issue(c, r) == issued' = Append(issued, [cmd |-> c, reply |-> r])

\* Fault: the general scan follows even when Netbird reported an address.
QueryNetbirdNoReturn ==
    /\ dpc = "start"
    /\ ToLower(TrimSpace(overlayProvider)) = netbird
    /\ \E r \in NetbirdReplies :
        /\ Issue(NetbirdStatus, r)
        /\ dpc' = "docker"
        /\ UNCHANGED dpRet
    /\ UNCHANGED <<sshVars, kaVars, extVars, ips, dockerSubnets, ipRes, overlayProvider, networkIDs, subnetsSSH>>

\* ssh.go:97-111: with provider "netbird" the status is asked for; a
\* non-empty netbirdIp is returned without its mask.
QueryNetbird ==
    /\ dpc = "start"
    /\ ToLower(TrimSpace(overlayProvider)) = netbird
    /\ \E r \in NetbirdReplies :
        /\ Issue(NetbirdStatus, r)
        /\ IF r.err = Nil /\ r.json /\ r.val # <<>>
           THEN dpRet' = SplitSlashFirst(r.val) /\ dpc' = "done"
           ELSE dpc' = "docker" /\ UNCHANGED dpRet
    /\ UNCHANGED <<sshVars, kaVars, extVars, ips, dockerSubnets, ipRes, overlayProvider, networkIDs, subnetsSSH>>

\* ssh.go:113-127: with provider "tailscale" the status is asked for; the
\* first of Self.TailscaleIPs is returned.
QueryTailscale ==
    /\ dpc = "start"
    /\ ToLower(TrimSpace(overlayProvider)) = tailscale
    /\ \E r \in TailscaleReplies :
        /\ Issue(TailscaleStatus, r)
        /\ IF r.err = Nil /\ r.json /\ Len(r.val) > 0
           THEN dpRet' = r.val[1] /\ dpc' = "done"
           ELSE dpc' = "docker" /\ UNCHANGED dpRet
    /\ UNCHANGED <<sshVars, kaVars, extVars, ips, dockerSubnets, ipRes, overlayProvider, networkIDs, subnetsSSH>>

\* ssh.go:100, 114: any other provider asks nothing.
NoProvider ==
    /\ dpc = "start"
    /\ ToLower(TrimSpace(overlayProvider)) \notin {netbird, tailscale}
    /\ dpc' = "docker"
    /\ UNCHANGED <<sshVars, kaVars, extVars, ips, dockerSubnets, ipRes, overlayProvider, issued, dpRet,
                   networkIDs, subnetsSSH>>

\* ssh.go:32-58: the networks are listed; an error, no output or no network
\* ends GetDockerSubnetsSSH with nil. A network is known by its subnet.
DockerList ==
    /\ dpc = "docker"
    /\ \/ /\ \E r \in {RunFailed, JSON(<<>>)} : Issue(listCmd, r)
          /\ networkIDs' = <<>>
          /\ dpc' = "hostname"
       \/ \E ids \in [1..Cardinality(dockerSubnets) -> dockerSubnets] :
            /\ \A i, j \in DOMAIN ids : ids[i] = ids[j] => i = j
            /\ Issue(listCmd, JSON(ids))
            /\ networkIDs' = ids
            /\ dpc' = IF ids = <<>> THEN "hostname" ELSE "inspect"
    /\ UNCHANGED <<sshVars, kaVars, extVars, ips, dockerSubnets, ipRes, overlayProvider, dpRet, subnetsSSH>>

\* ssh.go:62-88: the next network is inspected; an error or no output skips
\* it, otherwise its subnet is collected.
DockerInspect ==
    /\ dpc = "inspect"
    /\ \E r \in {RunFailed, JSON(<<Head(networkIDs)>>)} :
        /\ Issue(inspectCmd, r)
        /\ subnetsSSH' = IF r.err = Nil THEN subnetsSSH \cup {Head(networkIDs)} ELSE subnetsSSH
    /\ networkIDs' = Tail(networkIDs)
    /\ dpc' = IF Tail(networkIDs) = <<>> THEN "hostname" ELSE "inspect"
    /\ UNCHANGED <<sshVars, kaVars, extVars, ips, dockerSubnets, ipRes, overlayProvider, dpRet>>

\* ssh.go:132-142: the addresses are listed and the best one returned; on an
\* error, or when there is none, the node string is returned.
HostAddresses ==
    /\ dpc = "hostname"
    /\ \E r \in {RunFailed, JSON(ips)} :
        /\ Issue(HostnameI, r)
        /\ dpRet' = IF r.err = Nil /\ SelectBestIP(r.val, subnetsSSH) # NoIP
                    THEN <<SelectBestIP(r.val, subnetsSSH)>>
                    ELSE node
    /\ dpc' = "done"
    /\ UNCHANGED <<sshVars, kaVars, extVars, ips, dockerSubnets, ipRes, overlayProvider, networkIDs, subnetsSSH>>

NextDetect ==
    \/ QueryNetbird
    \/ QueryTailscale
    \/ NoProvider
    \/ DockerList
    \/ DockerInspect
    \/ HostAddresses
SpecDetect == InitDetect /\ [][NextDetect]_vars

\* ------------------------------------- ResolveNodeAddressSSH (ssh.go:215-270)
NameTok(n) == [fam |-> "name", oct |-> <<n>>, up |-> TRUE]
DotTok == [fam |-> ".", oct |-> <<>>, up |-> TRUE]
NewlineTok == [fam |-> "\n", oct |-> <<>>, up |-> TRUE]
localhost == <<NameTok("localhost")>>

\* strings.TrimSpace on a text of tokens.
TrimSpaceText(t) ==
    LET solid == { i \in DOMAIN t : t[i] # NewlineTok } IN
    IF solid = {} THEN <<>>
    ELSE SubSeq(t, CHOOSE i \in solid : \A j \in solid : i <= j,
                   CHOOSE i \in solid : \A j \in solid : i >= j)

\* strings.TrimSuffix(t, ".").
TrimSuffixDot(t) ==
    IF t # <<>> /\ t[Len(t)] = DotTok THEN SubSeq(t, 1, Len(t) - 1) ELSE t

HostnameF == "hostname -f"

\* The status JSON as ResolveNodeAddressSSH reads it: the name (fqdn /
\* Self.DNSName) and the address (netbirdIp / Self.TailscaleIPs).
Status(n, v) == [err |-> Nil, json |-> TRUE, val |-> v, name |-> n]
\* Plain output of a command.
Stdout(v) == [err |-> Nil, json |-> FALSE, val |-> v]

NetbirdStatusReplies ==
    { RunFailed, NotJSON, Status(<<>>, <<>>),
      Status(<<NameTok("n1"), DotTok, NameTok("netbird")>>,
             <<V4(100, 70, 1, 1), SlashTok, NumTok(16)>>),
      Status(<<>>, <<V4(100, 70, 1, 1), SlashTok, NumTok(16)>>),
      Status(<<NameTok("n1"), DotTok, NameTok("netbird")>>, <<>>) }

TailscaleStatusReplies ==
    { RunFailed, NotJSON, Status(<<>>, <<>>),
      Status(<<NameTok("n1"), DotTok, NameTok("ts"), DotTok>>, <<<<V4(100, 80, 0, 2)>>>>),
      Status(<<>>, <<<<V4(100, 80, 0, 2)>>>>),
      Status(<<NameTok("n1"), DotTok, NameTok("ts"), DotTok>>, <<>>) }

HostnameReplies ==
    { RunFailed, Stdout(<<>>), Stdout(<<NewlineTok>>),
      Stdout(<<NameTok("localhost"), NewlineTok>>),
      Stdout(<<NameTok("n1"), DotTok, NameTok("lan"), NewlineTok>>) }

\* The nodes ResolveNodeAddressSSH is tried on: their addresses and Docker
\* subnets.
ResolveNodes ==
    { [ips |-> <<>>, dockerSubnets |-> {}],
      [ips |-> <<V4(10, 0, 0, 5)>>, dockerSubnets |-> {}],
      [ips |-> <<V4(172, 17, 0, 2), V4(10, 0, 0, 5)>>,
       dockerSubnets |-> {Subnet(172, 17, 0, 0, 16)}] }

\* ResolveNodeAddressSSH has been called.
InitResolve ==
    /\ InitSSHIdle
    /\ InitKAIdle
    /\ InitExtIdle
    /\ \E n \in ResolveNodes : ips = n.ips /\ dockerSubnets = n.dockerSubnets
    /\ ipRes = NoIPRes
    /\ overlayProvider \in ProviderPool
    /\ dpc = "resolve"
    /\ issued = <<>>
    /\ dpRet = NoRet
    /\ networkIDs = <<>>
    /\ subnetsSSH = {}

\* ssh.go:216-236: with provider "netbird" the status is asked for; the fqdn,
\* else the netbirdIp without its mask, is returned.
ResolveNetbird ==
    /\ dpc = "resolve"
    /\ ToLower(TrimSpace(overlayProvider)) = netbird
    /\ overlayProvider' = ToLower(TrimSpace(overlayProvider))
    /\ \E r \in NetbirdStatusReplies :
        /\ Issue(NetbirdStatus, r)
        /\ IF r.err = Nil /\ r.json /\ r.name # <<>>
           THEN dpRet' = r.name /\ dpc' = "done"
           ELSE IF r.err = Nil /\ r.json /\ r.val # <<>>
           THEN dpRet' = SplitSlashFirst(r.val) /\ dpc' = "done"
           ELSE dpc' = "hostname -f" /\ UNCHANGED dpRet
    /\ UNCHANGED <<sshVars, kaVars, extVars, ips, dockerSubnets, ipRes, networkIDs, subnetsSSH>>

\* ssh.go:237-257: with provider "tailscale" the status is asked for; the
\* DNSName without its final dot, else the first of TailscaleIPs, is returned.
ResolveTailscale ==
    /\ dpc = "resolve"
    /\ ToLower(TrimSpace(overlayProvider)) = tailscale
    /\ overlayProvider' = ToLower(TrimSpace(overlayProvider))
    /\ \E r \in TailscaleStatusReplies :
        /\ Issue(TailscaleStatus, r)
        /\ IF r.err = Nil /\ r.json /\ r.name # <<>>
           THEN dpRet' = TrimSuffixDot(r.name) /\ dpc' = "done"
           ELSE IF r.err = Nil /\ r.json /\ Len(r.val) > 0
           THEN dpRet' = r.val[1] /\ dpc' = "done"
           ELSE dpc' = "hostname -f" /\ UNCHANGED dpRet
    /\ UNCHANGED <<sshVars, kaVars, extVars, ips, dockerSubnets, ipRes, networkIDs, subnetsSSH>>

\* ssh.go:219, 237: any other provider asks nothing.
ResolveNoProvider ==
    /\ dpc = "resolve"
    /\ ToLower(TrimSpace(overlayProvider)) \notin {netbird, tailscale}
    /\ overlayProvider' = ToLower(TrimSpace(overlayProvider))
    /\ dpc' = "hostname -f"
    /\ UNCHANGED <<sshVars, kaVars, extVars, ips, dockerSubnets, ipRes, issued, dpRet, networkIDs, subnetsSSH>>

\* Fault: "localhost" taken for the node's name.
ResolveHostnameAny ==
    /\ dpc = "hostname -f"
    /\ \E r \in HostnameReplies :
        /\ Issue(HostnameF, r)
        /\ IF r.err = Nil /\ TrimSpaceText(r.val) # <<>>
           THEN dpRet' = TrimSpaceText(r.val) /\ dpc' = "done"
           ELSE dpc' = "start" /\ UNCHANGED dpRet
    /\ UNCHANGED <<sshVars, kaVars, extVars, ips, dockerSubnets, ipRes, overlayProvider, networkIDs, subnetsSSH>>

\* ssh.go:259-269: the system hostname is asked for and returned unless it is
\* empty or "localhost"; otherwise DetectPrimarySSH is called with the
\* normalised provider.
ResolveHostname ==
    /\ dpc = "hostname -f"
    /\ \E r \in HostnameReplies :
        /\ Issue(HostnameF, r)
        /\ IF r.err = Nil /\ TrimSpaceText(r.val) # <<>> /\ TrimSpaceText(r.val) # localhost
           THEN dpRet' = TrimSpaceText(r.val) /\ dpc' = "done"
           ELSE dpc' = "start" /\ UNCHANGED dpRet
    /\ UNCHANGED <<sshVars, kaVars, extVars, ips, dockerSubnets, ipRes, overlayProvider, networkIDs, subnetsSSH>>

NextResolve ==
    \/ ResolveNetbird
    \/ ResolveTailscale
    \/ ResolveNoProvider
    \/ ResolveHostname
    \/ NextDetect
SpecResolve == InitResolve /\ [][NextResolve]_vars

\* ------------------------------------------------- Keepalived (part_001)
\* Texts are sequences of characters; a fixed piece of a format string is one
\* element.

\* Package defaults.
KeepalivedBasePriority == 100
KeepalivedRouterID == 51
KeepalivedAdvertInterval == 1
KeepalivedVRRPInstance == <<"V", "I", "_", "1">>

auto == <<"a", "u", "t", "o">>
Digits == <<"0", "1", "2", "3", "4", "5", "6", "7", "8", "9">>
IsDigit(c) == \E k \in DOMAIN Digits : Digits[k] = c
AllDigits(t) == t # <<>> /\ \A i \in DOMAIN t : IsDigit(t[i])

\* fmt %d / strconv.Itoa.
RECURSIVE Itoa(_)
Itoa(n) ==
    IF n < 0 THEN <<"-">> \o Itoa(0 - n)
    ELSE IF n < 10 THEN <<Digits[n + 1]>>
    ELSE Itoa(n \div 10) \o <<Digits[(n % 10) + 1]>>

RECURSIVE DigitsValue(_)
DigitsValue(t) ==
    IF t = <<>> THEN 0
    ELSE DigitsValue(SubSeq(t, 1, Len(t) - 1)) * 10
         + (CHOOSE k \in DOMAIN Digits : Digits[k] = t[Len(t)]) - 1

\* strconv.Atoi: an optional sign and digits, or an error.
Atoi(t) ==
    LET signed == t # <<>> /\ t[1] \in {"+", "-"}
        body == IF signed THEN Tail(t) ELSE t
    IN IF AllDigits(body)
       THEN [ok |-> TRUE,
             n |-> IF signed /\ t[1] = "-" THEN 0 - DigitsValue(body) ELSE DigitsValue(body)]
       ELSE [ok |-> FALSE, n |-> 0]

\* strings.Split(t, sep) for a separator of one character.
RECURSIVE Split(_, _)
Split(t, sep) ==
    LET at == { i \in DOMAIN t : t[i] = sep } IN
    IF at = {} THEN <<t>>
    ELSE LET i == CHOOSE k \in at : \A j \in at : k <= j
         IN <<SubSeq(t, 1, i - 1)>> \o Split(SubSeq(t, i + 1, Len(t)), sep)

\* strings.Fields.
Fields(t) == SelectSeq(Split(t, " "), LAMBDA w : w # <<>>)

\* strings.HasPrefix, strings.ToUpper.
HasPrefix(t, pre) == Len(t) >= Len(pre) /\ SubSeq(t, 1, Len(pre)) = pre
ToUpper(t) ==
    [i \in DOMAIN t |->
        IF \E k \in DOMAIN Lower : Lower[k] = t[i]
        THEN Upper[CHOOSE k \in DOMAIN Lower : Lower[k] = t[i]]
        ELSE t[i]]

\* config.IsAutoValue: the value "auto", in any case.
IsAutoValue(v) == ToLower(v) = auto

\* net.ParseIP of a dotted quad: the four octets, or nil (<<>>).
ParseIP(t) ==
    LET parts == Split(t, ".") IN
    IF /\ Len(parts) = 4
       /\ \A i \in 1..4 : AllDigits(parts[i]) /\ Len(parts[i]) <= 3
                          /\ DigitsValue(parts[i]) <= MaxOctet
    THEN [i \in 1..4 |-> DigitsValue(parts[i])]
    ELSE <<>>

\* net.IP.String of an IPv4 address.
IPString(o) ==
    Itoa(o[1]) \o <<".">> \o Itoa(o[2]) \o <<".">> \o Itoa(o[3]) \o <<".">> \o Itoa(o[4])

\* net.ParseCIDR: the address and the prefix length, or an error.
ParseCIDR(t) ==
    LET parts == Split(t, "/") IN
    IF /\ Len(parts) = 2
       /\ ParseIP(parts[1]) # <<>>
       /\ AllDigits(parts[2]) /\ Len(parts[2]) <= 2 /\ DigitsValue(parts[2]) <= 32
    THEN [ok |-> TRUE, ip |-> ParseIP(parts[1]), ones |-> DigitsValue(parts[2])]
    ELSE [ok |-> FALSE, ip |-> <<>>, ones |-> 0]

\* net.CIDRMask(prefix, 32), octet k, and ip.Mask(mask).
MaskOctet(prefix, k) ==
    LET b == IF prefix >= 8 * k THEN 8
             ELSE IF prefix <= 8 * (k - 1) THEN 0
             ELSE prefix - 8 * (k - 1)
    IN 256 - 2 ^ (8 - b)
AndMask(o, m) == (o \div (256 - m)) * (256 - m)
Mask(ip, prefix) == [k \in 1..4 |-> AndMask(ip[k], MaskOctet(prefix, k))]

\* part_001:38-42, 284-296.
rfc1918Networks ==
    { Subnet(10, 0, 0, 0, 8), Subnet(172, 16, 0, 0, 12), Subnet(192, 168, 0, 0, 16) }
isRFC1918(ip) ==
    \E n \in rfc1918Networks : SubnetContains(n, [fam |-> "v4", oct |-> ip, up |-> TRUE])

\* Fault: every node given the base priority.
resolveNodeConfigFlat(n, nodeIndex, iface, vipCIDR) ==
    LET p == Atoi(n.Priority)
        priority ==
            IF ~IsAutoValue(n.Priority) /\ n.Priority # <<>> /\ p.ok
            THEN p.n
            ELSE KeepalivedBasePriority
        state ==
            IF ~IsAutoValue(n.State) /\ n.State # <<>>
            THEN ToUpper(n.State)
            ELSE IF nodeIndex = 0 THEN <<"M", "A", "S", "T", "E", "R">>
            ELSE <<"B", "A", "C", "K", "U", "P">>
    IN [Hostname |-> n.SSHFQDNorIP, Priority |-> priority, State |-> state,
        Interface |-> iface, VIP |-> vipCIDR]

\* Fault: the nodes counted from one.
resolveNodeConfigOneBased(n, nodeIndex, iface, vipCIDR) ==
    LET p == Atoi(n.Priority)
        priority ==
            IF ~IsAutoValue(n.Priority) /\ n.Priority # <<>> /\ p.ok
            THEN p.n
            ELSE KeepalivedBasePriority - (nodeIndex + 1)
        state ==
            IF ~IsAutoValue(n.State) /\ n.State # <<>>
            THEN ToUpper(n.State)
            ELSE IF nodeIndex = 0 THEN <<"M", "A", "S", "T", "E", "R">>
            ELSE <<"B", "A", "C", "K", "U", "P">>
    IN [Hostname |-> n.SSHFQDNorIP, Priority |-> priority, State |-> state,
        Interface |-> iface, VIP |-> vipCIDR]

\* part_001:144-169.
resolveNodeConfig(n, nodeIndex, iface, vipCIDR) ==
    LET p == Atoi(n.Priority)
        priority ==
            IF ~IsAutoValue(n.Priority) /\ n.Priority # <<>> /\ p.ok
            THEN p.n
            ELSE KeepalivedBasePriority - nodeIndex
        state ==
            IF ~IsAutoValue(n.State) /\ n.State # <<>>
            THEN ToUpper(n.State)
            ELSE IF nodeIndex = 0 THEN <<"M", "A", "S", "T", "E", "R">>
            ELSE <<"B", "A", "C", "K", "U", "P">>
    IN [Hostname |-> n.SSHFQDNorIP, Priority |-> priority, State |-> state,
        Interface |-> iface, VIP |-> vipCIDR]

\* part_001:174-207: the first interface, not docker*, br-*, veth* or wg*,
\* with an RFC1918 address; stdout is the list of "name address/prefix" lines.
RECURSIVE detectRFC1918Interface(_)
detectRFC1918Interface(lines) ==
    IF lines = <<>> THEN [iface |-> <<>>, err |-> [kind |-> "no RFC1918 interface found"]]
    ELSE LET parts == Fields(Head(lines))
             skip == \/ Len(parts) < 2
                     \/ HasPrefix(parts[1], <<"d", "o", "c", "k", "e", "r">>)
                     \/ HasPrefix(parts[1], <<"b", "r", "-">>)
                     \/ HasPrefix(parts[1], <<"v", "e", "t", "h">>)
                     \/ HasPrefix(parts[1], <<"w", "g">>)
                     \/ ~ParseCIDR(parts[2]).ok
         IN IF ~skip /\ isRFC1918(ParseCIDR(parts[2]).ip)
            THEN [iface |-> parts[1], err |-> Nil]
            ELSE detectRFC1918Interface(Tail(lines))

\* strings.Join(lines, "\n"): the output of a command printing these lines.
RECURSIVE JoinLines(_)
JoinLines(lines) ==
    IF lines = <<>> THEN <<>>
    ELSE Head(lines) \o <<"\n">> \o JoinLines(Tail(lines))

\* part_001:210-229, after a successful Run: stdout is the text printed.
getInterfaceDetails(stdout, iface) ==
    LET ipCIDR == TrimSpace(stdout)
        c == ParseCIDR(ipCIDR)
    IN IF ipCIDR = <<>>
       THEN [ip |-> <<>>, cidr |-> <<>>, err |-> [kind |-> "no IP address found on interface"]]
       ELSE IF ~c.ok
       THEN [ip |-> <<>>, cidr |-> <<>>, err |-> [kind |-> "failed to parse IP/CIDR"]]
       ELSE [ip |-> IPString(c.ip), cidr |-> Itoa(c.ones), err |-> Nil]

\* part_001:236-261: the candidates, .254 down to .245 of the network's first
\* three octets, without the interface's own address.
FirstCandidate == 254
LastCandidate == 245
RECURSIVE CandidatesFrom(_, _, _)
CandidatesFrom(i, network, ifaceIP) ==
    IF i < LastCandidate THEN <<>>
    ELSE LET candidateIP == IPString(<<network[1], network[2], network[3], i>>)
         IN (IF candidateIP = ifaceIP THEN <<>> ELSE <<candidateIP>>)
            \o CandidatesFrom(i - 1, network, ifaceIP)
Network(ifaceIP, cidrPrefix) ==
    Mask(ParseIP(ifaceIP), IF Atoi(cidrPrefix).ok THEN Atoi(cidrPrefix).n ELSE 0)
candidateIPs(ifaceIP, cidrPrefix) ==
    CandidatesFrom(FirstCandidate, Network(ifaceIP, cidrPrefix), ifaceIP)

\* net.IP.String of a slice that is neither 4 nor 16 bytes long: "?" and the
\* bytes in hexadecimal.
HexDigits == <<"0", "1", "2", "3", "4", "5", "6", "7", "8", "9", "a", "b", "c", "d", "e", "f">>
HexByte(b) == <<HexDigits[(b \div 16) + 1], HexDigits[(b % 16) + 1]>>
ShortIPString(o) == <<"?">> \o HexByte(o[1]) \o HexByte(o[2]) \o HexByte(o[3])

\* part_001:281: the error of findUnusedVIP.
NoUnusedIP(network) ==
    [kind |-> "no unused IP found in range",
     text |-> ShortIPString(network) \o <<".245-">> \o ShortIPString(network) \o <<".254">>]

\* part_001:400-435: the format string of keepalived.conf, line by line, with
\* the values in the places of its verbs.
ConfLines(vipCIDR, interface, state, routerID, priority, authPass) ==
    << <<"# Keepalived configuration - Generated by dscotctl">>,
       <<"# VIP: ">> \o vipCIDR \o <<" | Interface: ">> \o interface
            \o <<" | Node State: ">> \o state,
       <<>>,
       <<"global_defs {">>,
       <<"    router_id ">> \o KeepalivedVRRPInstance \o <<"_">> \o Itoa(routerID),
       <<"    script_user root">>,
       <<"    enable_script_security">>,
       <<"}">>,
       <<>>,
       <<"vrrp_script ", "chk_docker_swarm {">>,
       <<"    script \"/etc/keepalived/check_docker_swarm.sh\"">>,
       <<"    interval 5">>,
       <<"    weight -20">>,
       <<"    fall 2">>,
       <<"    rise 2">>,
       <<"}">>,
       <<>>,
       <<"vrrp_instance ">> \o KeepalivedVRRPInstance \o <<" {">>,
       <<"    state ">> \o state,
       <<"    interface ">> \o interface,
       <<"    virtual_router_id ">> \o Itoa(routerID),
       <<"    priority ">> \o Itoa(priority),
       <<"    advert_int ">> \o Itoa(KeepalivedAdvertInterval),
       <<>>,
       <<"    authentication {">>,
       <<"        auth_type PASS">>,
       <<"        auth_pass ">> \o authPass,
       <<"    }">>,
       <<>>,
       <<"    virtual_ipaddress {">>,
       <<"        ">> \o vipCIDR,
       <<"    }">>,
       <<>>,
       <<"    track_script {">>,
       <<"        chk_docker_swarm">>,
       <<"    }">>,
       <<"}">> >>

\* Fault: the virtual IP written without its prefix length.
generateKeepalivedConfBareVIP(nodeConfig, d) ==
    ConfLines(d.VIP, nodeConfig.Interface, nodeConfig.State, d.RouterID,
              nodeConfig.Priority, d.AuthPass)

\* part_001:390-458: the values handed to the format string (436-450).
generateKeepalivedConf(nodeConfig, d) ==
    ConfLines(d.VIPCIDR, nodeConfig.Interface, nodeConfig.State, d.RouterID,
              nodeConfig.Priority, d.AuthPass)

\* encoding/hex.EncodeToString.
RECURSIVE EncodeToString(_)
EncodeToString(bytes) ==
    IF bytes = <<>> THEN <<>> ELSE HexByte(Head(bytes)) \o EncodeToString(Tail(bytes))

\* part_001:303-308: what crypto/rand may deliver.
KeepalivedAuthPassLength == 16
RandomBytes == { [i \in 1..(KeepalivedAuthPassLength \div 2) |-> b] : b \in {58, 197} }

\* ---- the declared configuration
MASTER == <<"M", "A", "S", "T", "E", "R">>
BACKUP == <<"B", "A", "C", "K", "U", "P">>
eth1 == <<"e", "t", "h", "1">>
Node(name, priority, state) == [SSHFQDNorIP |-> <<name>>, Priority |-> priority, State |-> state]
AutoNode(name) == Node(name, <<>>, <<>>)
\* More nodes than the base priority has values above zero.
ManyNodes == 101
OneNode == <<AutoNode("n1")>>
ThreeNodes == <<AutoNode("n1"), Node("n2", auto, <<"A", "u", "t", "o">>), AutoNode("n3")>>
\* Node n2 with a priority and a state of its own.
OverrideNodes ==
    <<AutoNode("n1"), Node("n2", <<"1", "5", "0">>, <<"m", "a", "s", "t", "e", "r">>),
      AutoNode("n3")>>
\* Overrides that are no VRRP priority, no number, no VRRP state.
OddNodes ==
    <<Node("n1", <<"3", "0", "0">>, <<"b", "a", "c", "k", "u", "p">>),
      Node("n2", <<"0">>, <<"f", "a", "u", "l", "t">>),
      Node("n3", <<"h", "i", "g", "h">>, <<>>)>>
Config(enabled, iface, vip, authPass, routerID, nodes) ==
    [Enabled |-> enabled, Interface |-> iface, VIP |-> vip, AuthPass |-> authPass,
     RouterID |-> routerID, nodes |-> nodes]
KAConfigs ==
    { Config(TRUE, auto, <<>>, auto, 0, OneNode),
      Config(TRUE, auto, <<>>, auto, 0, ThreeNodes),
      Config(TRUE, auto, <<>>, <<"s", "3", "c", "r", "e", "t">>, 0, OverrideNodes),
      Config(TRUE, <<>>, <<"A", "U", "T", "O">>, <<"s", "3", "c", "r", "e", "t">>, 7, OddNodes),
      Config(TRUE, eth1, IPString(<<192, 168, 1, 250>>), <<>>, 7, ThreeNodes),
      Config(TRUE, eth1, IPString(<<192, 168, 1, 250>>), <<"s", "3", "c", "r", "e", "t">>, 7,
             [i \in 1..ManyNodes |-> AutoNode("n")]),
      Config(TRUE, auto, <<>>, auto, 0, <<>>),
      Config(FALSE, auto, <<>>, auto, 0, ThreeNodes) }

\* ---- the first node's network
\* One line of `ip -o -4 addr show | awk '{print $2, $4}'`.
AddrLine(name, ip, ones) == name \o <<" ">> \o IPString(ip) \o <<"/">> \o Itoa(ones)
Eth1Addrs ==
    { [ip |-> <<192, 168, 1, 10>>, ones |-> 24],
      [ip |-> <<192, 168, 1, 250>>, ones |-> 24],
      [ip |-> <<10, 0, 5, 7>>, ones |-> 16],
      [ip |-> <<192, 168, 1, 10>>, ones |-> 25],
      [ip |-> <<192, 168, 1, 253>>, ones |-> 30],
      [ip |-> <<8, 8, 4, 4>>, ones |-> 24] }
\* Which of the last octets .245 to .254 answer an ARP probe.
UsedPatterns == { {}, {254}, {254, 253}, LastCandidate..FirstCandidate }
Lan(a, u, f) ==
    [ifaces |-> << AddrLine(<<"d", "o", "c", "k", "e", "r", "0">>, <<172, 17, 0, 1>>, 16),
                   AddrLine(eth1, a.ip, a.ones) >>,
     inUse |-> { IPString(<<Mask(a.ip, a.ones)[1], Mask(a.ip, a.ones)[2],
                            Mask(a.ip, a.ones)[3], o>>) : o \in u },
     flaky |-> f]
\* Commands fail in transport only in the first of the networks.
Lans ==
    { Lan(a, u, FALSE) : a \in Eth1Addrs, u \in UsedPatterns }
    \cup { Lan([ip |-> <<192, 168, 1, 10>>, ones |-> 24], u, TRUE) : u \in UsedPatterns }

NoPrep ==
    [iface |-> <<>>, ifaceIP |-> <<>>, ifaceCIDR |-> <<>>, vip |-> <<>>, authPass |-> <<>>,
     routerID |-> 0, candidateIPs |-> <<>>, VIPCIDR |-> <<>>, Nodes |-> <<>>]
NoRun == [no |-> 1, prev |-> NoRet, deployed |-> FALSE]

\* PrepareKeepalivedDeployment has been called, for the first time.
InitVRRP ==
    /\ InitSSHIdle
    /\ InitIPIdle
    /\ InitExtIdle
    /\ kaCfg \in KAConfigs
    /\ lan \in Lans
    /\ kpc = "start"
    /\ prep = NoPrep
    /\ probeLog = <<>>
    /\ deployment = NoRet
    /\ run = NoRun
    /\ confs = <<>>

\* What sshPool.Run may return instead of running the command.
TransportErrors == { [kind |-> "failed to create ssh client"], CtxErr }
\* Non-zero exit of the remote command (client.go:191-192).
ExitError == [kind |-> "exit status 1"]

Failed(kind, cause) == [dep |-> NoRet, err |-> [kind |-> kind, cause |-> cause]]

\* part_001:47-59.
PrepareStart ==
    /\ kpc = "start"
    /\ IF ~kaCfg.Enabled \/ Len(kaCfg.nodes) = 0
       THEN /\ deployment' = [dep |-> [Enabled |-> FALSE], err |-> Nil]
            /\ kpc' = "done"
       ELSE /\ kpc' = "iface"
            /\ UNCHANGED deployment
    /\ UNCHANGED <<sshVars, ipVars, extVars, kaCfg, lan, prep, probeLog, run, confs>>

\* part_001:68-77 with detectRFC1918Interface (172-207).
DetectInterface ==
    /\ kpc = "iface"
    /\ IF IsAutoValue(kaCfg.Interface) \/ kaCfg.Interface = <<>>
       THEN \/ /\ lan.flaky
               /\ \E e \in TransportErrors :
                    deployment' = Failed("failed to auto-detect RFC1918 interface",
                                         [kind |-> "failed to list interfaces", cause |-> e])
               /\ kpc' = "done"
               /\ UNCHANGED prep
            \/ LET detected == detectRFC1918Interface(lan.ifaces) IN
               IF detected.err # Nil
               THEN /\ deployment' = Failed("failed to auto-detect RFC1918 interface",
                                            detected.err)
                    /\ kpc' = "done"
                    /\ UNCHANGED prep
               ELSE /\ prep' = [prep EXCEPT !.iface = detected.iface]
                    /\ kpc' = "details"
                    /\ UNCHANGED deployment
       ELSE /\ prep' = [prep EXCEPT !.iface = kaCfg.Interface]
            /\ kpc' = "details"
            /\ UNCHANGED deployment
    /\ UNCHANGED <<sshVars, ipVars, extVars, kaCfg, lan, probeLog, run, confs>>

\* The output of `ip -o -4 addr show <iface> | awk '{print $4}'`.
AddrsOf(iface) ==
    LET mine == SelectSeq(lan.ifaces, LAMBDA l : Fields(l)[1] = iface) IN
    JoinLines([i \in DOMAIN mine |-> Fields(mine[i])[2]])

\* part_001:79-97 with getInterfaceDetails (210-229); a configured virtual
\* IP is taken as it is.
GetInterfaceDetails ==
    /\ kpc = "details"
    /\ \/ /\ lan.flaky
          /\ \E e \in TransportErrors :
                deployment' = Failed("failed to get interface details",
                                     [kind |-> "failed to get interface details", cause |-> e])
          /\ kpc' = "done"
          /\ UNCHANGED prep
       \/ LET d == getInterfaceDetails(AddrsOf(prep.iface), prep.iface) IN
          IF d.err # Nil
          THEN /\ deployment' = Failed("failed to get interface details", d.err)
               /\ kpc' = "done"
               /\ UNCHANGED prep
          ELSE /\ UNCHANGED deployment
               /\ IF IsAutoValue(kaCfg.VIP) \/ kaCfg.VIP = <<>>
                  THEN /\ prep' = [prep EXCEPT !.ifaceIP = d.ip, !.ifaceCIDR = d.cidr]
                       /\ kpc' = "vip"
                  ELSE /\ prep' = [prep EXCEPT !.ifaceIP = d.ip, !.ifaceCIDR = d.cidr,
                                               !.vip = kaCfg.VIP]
                       /\ kpc' = "auth"
    /\ UNCHANGED <<sshVars, ipVars, extVars, kaCfg, lan, probeLog, run, confs>>

\* part_001:232-265: findUnusedVIP parses the address, lists the candidates
\* and has arping installed, whatever that command returns.
FindStart ==
    /\ kpc = "vip"
    /\ IF ParseIP(prep.ifaceIP) = <<>>
       THEN /\ deployment' = Failed("failed to auto-detect unused VIP",
                                    [kind |-> "invalid interface IP"])
            /\ kpc' = "done"
            /\ UNCHANGED prep
       ELSE /\ prep' = [prep EXCEPT !.candidateIPs = candidateIPs(prep.ifaceIP, prep.ifaceCIDR)]
            /\ kpc' = "probe"
            /\ UNCHANGED deployment
    /\ UNCHANGED <<sshVars, ipVars, extVars, kaCfg, lan, probeLog, run, confs>>

\* part_001:268-272: the arping command for the next candidate is run.
ProbeIssue ==
    /\ kpc = "probe"
    /\ prep.candidateIPs # <<>>
    /\ probeLog' = Append(probeLog, [ev |-> "issue", ip |-> Head(prep.candidateIPs), err |-> Nil])
    /\ kpc' = "probing"
    /\ UNCHANGED <<sshVars, ipVars, extVars, kaCfg, lan, prep, deployment, run, confs>>

\* What the arping command run for a candidate returns: nil when the address
\* answered (exit status 0), an exit error when it did not, or, the command
\* not having run, what Pool.Run returns instead.
ProbeErrs(candidate) ==
    (IF candidate \in lan.inUse THEN {Nil} ELSE {ExitError})
    \cup (IF lan.flaky THEN TransportErrors ELSE {})

\* Fault: probing goes on after an unused candidate.
ProbeReturnGoOn ==
    /\ kpc = "probing"
    /\ \E e \in ProbeErrs(Head(prep.candidateIPs)) :
        /\ probeLog' = Append(probeLog,
                              [ev |-> "return", ip |-> Head(prep.candidateIPs), err |-> e])
        /\ IF e # Nil /\ Len(prep.candidateIPs) = 1
           THEN /\ prep' = [prep EXCEPT !.vip = Head(prep.candidateIPs)]
                /\ kpc' = "auth"
           ELSE /\ prep' = [prep EXCEPT !.candidateIPs = Tail(@)]
                /\ kpc' = "probe"
    /\ UNCHANGED <<sshVars, ipVars, extVars, kaCfg, lan, deployment, run, confs>>

\* part_001:272-278: the command returns; any error makes the candidate the
\* virtual IP, no error moves on to the next candidate.
ProbeReturn ==
    /\ kpc = "probing"
    /\ \E e \in ProbeErrs(Head(prep.candidateIPs)) :
        /\ probeLog' = Append(probeLog,
                              [ev |-> "return", ip |-> Head(prep.candidateIPs), err |-> e])
        /\ IF e # Nil
           THEN /\ prep' = [prep EXCEPT !.vip = Head(prep.candidateIPs)]
                /\ kpc' = "auth"
           ELSE /\ prep' = [prep EXCEPT !.candidateIPs = Tail(@)]
                /\ kpc' = "probe"
    /\ UNCHANGED <<sshVars, ipVars, extVars, kaCfg, lan, deployment, run, confs>>

\* part_001:281 and 90-93: no candidate is left; PrepareKeepalivedDeployment
\* returns the error.
FindFail ==
    /\ kpc = "probe"
    /\ prep.candidateIPs = <<>>
    /\ deployment' = Failed("failed to auto-detect unused VIP",
                            NoUnusedIP(Network(prep.ifaceIP, prep.ifaceCIDR)))
    /\ kpc' = "done"
    /\ UNCHANGED <<sshVars, ipVars, extVars, kaCfg, lan, prep, probeLog, run, confs>>

\* Fault: the shared secret derived from the router id.
PrepareSecretFixed ==
    /\ kpc = "auth"
    /\ prep' = [prep EXCEPT
            !.authPass = IF IsAutoValue(kaCfg.AuthPass) \/ kaCfg.AuthPass = <<>>
                         THEN Itoa(kaCfg.RouterID) ELSE kaCfg.AuthPass,
            !.routerID = IF kaCfg.RouterID = 0 THEN KeepalivedRouterID ELSE kaCfg.RouterID,
            !.VIPCIDR = prep.vip \o <<"/">> \o prep.ifaceCIDR,
            !.Nodes = <<>>]
    /\ kpc' = "nodes"
    /\ UNCHANGED <<sshVars, ipVars, extVars, kaCfg, lan, probeLog, deployment, run, confs>>

\* part_001:97-119: the shared secret (generated from crypto/rand unless
\* configured), the router id, the virtual IP with the prefix length.
PrepareSecret ==
    /\ kpc = "auth"
    /\ \E bytes \in RandomBytes :
        prep' = [prep EXCEPT
            !.authPass = IF IsAutoValue(kaCfg.AuthPass) \/ kaCfg.AuthPass = <<>>
                         THEN EncodeToString(bytes) ELSE kaCfg.AuthPass,
            !.routerID = IF kaCfg.RouterID = 0 THEN KeepalivedRouterID ELSE kaCfg.RouterID,
            !.VIPCIDR = prep.vip \o <<"/">> \o prep.ifaceCIDR,
            !.Nodes = <<>>]
    /\ kpc' = "nodes"
    /\ UNCHANGED <<sshVars, ipVars, extVars, kaCfg, lan, probeLog, deployment, run, confs>>

\* part_001:121-129: the next node's configuration.
ResolveNode ==
    /\ kpc = "nodes"
    /\ Len(prep.Nodes) < Len(kaCfg.nodes)
    /\ prep' = [prep EXCEPT !.Nodes =
            Append(@, resolveNodeConfig(kaCfg.nodes[Len(prep.Nodes) + 1], Len(prep.Nodes),
                                        prep.iface, prep.VIPCIDR))]
    /\ UNCHANGED <<sshVars, ipVars, extVars, kaCfg, lan, kpc, probeLog, deployment, run, confs>>

\* part_001:111-119, 140.
PrepareReturn ==
    /\ kpc = "nodes"
    /\ Len(prep.Nodes) = Len(kaCfg.nodes)
    /\ deployment' =
        [dep |-> [Enabled |-> TRUE, VIP |-> prep.vip, VIPCIDR |-> prep.VIPCIDR,
                  Interface |-> prep.iface, RouterID |-> prep.routerID,
                  AuthPass |-> prep.authPass, Nodes |-> prep.Nodes],
         err |-> Nil]
    /\ kpc' = "done"
    /\ UNCHANGED <<sshVars, ipVars, extVars, kaCfg, lan, prep, probeLog, run, confs>>

Prepared == kpc = "done" /\ deployment.err = Nil /\ deployment.dep.Enabled

\* part_001:311-388: keepalived is installed on the next node and its
\* keepalived.conf written.
InstallNode ==
    /\ Prepared
    /\ run.no = 1
    /\ Len(confs) < Len(deployment.dep.Nodes)
    /\ confs' = Append(confs, generateKeepalivedConf(deployment.dep.Nodes[Len(confs) + 1],
                                                     deployment.dep))
    /\ UNCHANGED <<sshVars, ipVars, extVars, kaCfg, lan, kpc, prep, probeLog, deployment, run>>

\* keepalived runs on every node: the virtual IP answers probes, and it is a
\* second address of the first node's interface when that node is MASTER.
InstallDone ==
    /\ Prepared
    /\ run.no = 1
    /\ Len(confs) = Len(deployment.dep.Nodes)
    /\ lan' = [lan EXCEPT
            !.inUse = @ \cup {deployment.dep.VIP},
            !.ifaces = IF deployment.dep.Nodes[1].State = MASTER
                       THEN Append(@, deployment.dep.Interface \o <<" ">> \o deployment.dep.VIPCIDR)
                       ELSE @]
    /\ kpc' = "installed"
    /\ UNCHANGED <<sshVars, ipVars, extVars, kaCfg, prep, probeLog, deployment, run, confs>>

\* PrepareKeepalivedDeployment is called again with the same configuration,
\* before anything was installed or after everything was.
PrepareAgain ==
    /\ kpc \in {"done", "installed"}
    /\ kpc = "done" => confs = <<>>
    /\ run.no = 1
    /\ run' = [no |-> 2, prev |-> deployment, deployed |-> kpc = "installed"]
    /\ kpc' = "start"
    /\ prep' = NoPrep
    /\ probeLog' = <<>>
    /\ deployment' = NoRet
    /\ UNCHANGED <<sshVars, ipVars, extVars, kaCfg, lan, confs>>

NextVRRP ==
    \/ PrepareStart
    \/ DetectInterface
    \/ GetInterfaceDetails
    \/ FindStart
    \/ ProbeIssue
    \/ ProbeReturn
    \/ FindFail
    \/ PrepareSecret
    \/ ResolveNode
    \/ PrepareReturn
    \/ InstallNode
    \/ InstallDone
    \/ PrepareAgain
SpecVRRP == InitVRRP /\ [][NextVRRP]_vars

\* ------------------------------- InstallAndConfigureKeepalived, stepwise
\* A deployment as PrepareKeepalivedDeployment builds it (part_001:111-129)
\* for these nodes, on eth1 with the virtual IP 192.168.1.250/24.
PlannedDeployment(nodes) ==
    LET vip == <<"1", "9", "2", ".", "1", "6", "8", ".", "1", ".", "2", "5", "0">>
        vipCIDR == vip \o <<"/", "2", "4">>
    IN [Enabled |-> TRUE, VIP |-> vip, VIPCIDR |-> vipCIDR, Interface |-> eth1,
        RouterID |-> KeepalivedRouterID, AuthPass |-> <<"s", "3", "c", "r", "e", "t">>,
        Nodes |-> [k \in DOMAIN nodes |-> resolveNodeConfig(nodes[k], k - 1, eth1, vipCIDR)]]

InstallDeployments ==
    { PlannedDeployment(nodes) : nodes \in {<<>>, OneNode, ThreeNodes, OverrideNodes, OddNodes} }
    \cup { [Enabled |-> FALSE] }

\* InstallAndConfigureKeepalived has been called with a deployment.
InitInstall ==
    /\ InitSSHIdle
    /\ InitIPIdle
    /\ kaCfg = NoRet /\ lan = NoRet /\ kpc = "idle" /\ prep = NoRet
    /\ probeLog = <<>> /\ run = NoRet /\ confs = <<>>
    /\ \E d \in InstallDeployments : deployment = [dep |-> d, err |-> Nil]
    /\ cmdLog = <<>>
    /\ ipc = [node |-> 0, step |-> "start"]
    /\ installRet = NoRet
    /\ InitFormatIdle
    /\ InitDiskIdle
    /\ InitGeoIdle

\* What sshPool.Run returns for a command of the installer.
RunErrs == {Nil, ExitError} \cup TransportErrors
Ran(step, e) ==
    [node |-> ipc.node, host |-> deployment.dep.Nodes[ipc.node].Hostname, step |-> step,
     err |-> e]
\* part_001:326-328 around the error of installKeepalivedOnNode.
InstallFailure(cause) ==
    [kind |-> "failed to configure Keepalived on",
     host |-> deployment.dep.Nodes[ipc.node].Hostname, cause |-> cause]
Done == [node |-> ipc.node, step |-> "done"]

\* part_001:312-318: nothing to do, or the first node comes up.
InstallStart ==
    /\ ipc.step = "start"
    /\ IF ~deployment.dep.Enabled \/ Len(deployment.dep.Nodes) = 0
       THEN ipc' = Done /\ installRet' = Nil
       ELSE ipc' = [node |-> 1, step |-> "install"] /\ UNCHANGED installRet
    /\ UNCHANGED <<sshVars, ipVars, fmtVars, diskVars, geoVars, kaVars, cmdLog>>

\* part_001:339-361: the package is installed.
InstallPackage ==
    /\ ipc.step = "install"
    /\ \E e \in RunErrs :
        /\ cmdLog' = Append(cmdLog, Ran("install", e))
        /\ IF e # Nil
           THEN /\ ipc' = Done
                /\ installRet' = InstallFailure([kind |-> "failed to install keepalived",
                                                 cause |-> e])
           ELSE /\ ipc' = [ipc EXCEPT !.step = "write"]
                /\ UNCHANGED installRet
    /\ UNCHANGED <<sshVars, ipVars, fmtVars, diskVars, geoVars, kaVars>>

\* part_001:363-373: keepalived.conf is generated and written.
WriteConf ==
    /\ ipc.step = "write"
    /\ \E e \in RunErrs :
        /\ cmdLog' = Append(cmdLog, Ran("write", e))
        /\ IF e # Nil
           THEN /\ ipc' = Done
                /\ installRet' = InstallFailure([kind |-> "failed to write keepalived.conf",
                                                 cause |-> e])
                /\ UNCHANGED confs
           ELSE /\ ipc' = [ipc EXCEPT !.step = "script"]
                /\ confs' = Append(confs, generateKeepalivedConf(deployment.dep.Nodes[ipc.node],
                                                                 deployment.dep))
                /\ UNCHANGED installRet
    /\ UNCHANGED <<sshVars, ipVars, fmtVars, diskVars, geoVars, kaCfg, lan, kpc, prep, probeLog, deployment, run>>

\* Fault: a health-check script that could not be written is passed over.
WriteHealthCheckScriptIgnoreErr ==
    /\ ipc.step = "script"
    /\ \E e \in RunErrs :
        /\ cmdLog' = Append(cmdLog, Ran("script", e))
        /\ ipc' = [ipc EXCEPT !.step = "restart"]
        /\ UNCHANGED installRet
    /\ UNCHANGED <<sshVars, ipVars, fmtVars, diskVars, geoVars, kaVars>>

\* part_001:375-378 with WriteHealthCheckScript (461-487), which wraps the
\* error once itself.
WriteHealthCheckScript ==
    /\ ipc.step = "script"
    /\ \E e \in RunErrs :
        /\ cmdLog' = Append(cmdLog, Ran("script", e))
        /\ IF e # Nil
           THEN /\ ipc' = Done
                /\ installRet' =
                    InstallFailure([kind |-> "failed to write health check script",
                                    cause |-> [kind |-> "failed to write health check script",
                                               cause |-> e]])
           ELSE /\ ipc' = [ipc EXCEPT !.step = "restart"]
                /\ UNCHANGED installRet
    /\ UNCHANGED <<sshVars, ipVars, fmtVars, diskVars, geoVars, kaVars>>

\* part_001:380-386 and 318, 332: the daemon is enabled and restarted; then
\* the next node, or the return.
RestartDaemon ==
    /\ ipc.step = "restart"
    /\ \E e \in RunErrs :
        /\ cmdLog' = Append(cmdLog, Ran("restart", e))
        /\ IF e # Nil
           THEN /\ ipc' = Done
                /\ installRet' = InstallFailure([kind |-> "failed to restart keepalived",
                                                 cause |-> e])
           ELSE IF ipc.node < Len(deployment.dep.Nodes)
           THEN /\ ipc' = [node |-> ipc.node + 1, step |-> "install"]
                /\ UNCHANGED installRet
           ELSE /\ ipc' = Done
                /\ installRet' = Nil
    /\ UNCHANGED <<sshVars, ipVars, fmtVars, diskVars, geoVars, kaVars>>

NextInstall ==
    \/ InstallStart
    \/ InstallPackage
    \/ WriteConf
    \/ WriteHealthCheckScript
    \/ RestartDaemon
SpecInstall == InitInstall /\ [][NextInstall]_vars

\* ================================================== gluster/disk.go
\* ------------------------------------------------- FormatAndMountDisk
\* retry.DefaultConfig: 5 attempts (part_002:23).
DefaultMaxAttempts == 5
\* The mountPath argument, and another place the device may be mounted at.
mountPath == "/mnt/GlusterFS/brick"
otherPath == "/data"

\* FormatAndMountDisk has been called for a device that is blank or holds a
\* filesystem, is unmounted or mounted, with or without an fstab line.
InitFormat ==
    /\ InitSSHIdle
    /\ InitIPIdle
    /\ InitKAIdle
    /\ InitInstIdle
    /\ InitDiskIdle
    /\ InitGeoIdle
    /\ dev \in { d \in [fs : {"", "xfs", "ext4"}, mount : {"", mountPath, otherPath},
                        fstab : 0..1] : d.mount # "" => d.fs # "" }
    /\ fpc = "lsblk"
    /\ floc = NoLocals
    /\ fmtLog = <<>>
    /\ fmtRet = NoRet
    /\ frun = [no |-> 1, prev |-> NoRet]

\* A command handed to sshPool.Run and what Run returned for it.
Cmd(name, e) == [run |-> frun.no, cmd |-> name, ok |-> e = Nil, fsBefore |-> dev.fs]
\* Run's error for a command that ends in "|| true" or in "|| echo": nil, or
\* the command did not run.
NoRunErrs == {Nil} \cup TransportErrors
FormatReturn(e) == fmtRet' = e /\ fpc' = "done"
othVars == <<sshVars, ipVars, kaVars, instVars, diskVars, geoVars>>

\* disk.go:107-112: where the device is mounted; the error of Run is dropped.
CheckDeviceMount ==
    /\ fpc = "lsblk"
    /\ \E e \in NoRunErrs :
        LET currentMountpoint == IF e = Nil THEN dev.mount ELSE "" IN
        /\ fmtLog' = Append(fmtLog, Cmd("lsblk", e))
        /\ floc' = [floc EXCEPT !.currentMountpoint = currentMountpoint]
        /\ fpc' = IF currentMountpoint # "" /\ currentMountpoint # mountPath
                  THEN "umount" ELSE "blkid"
    /\ UNCHANGED <<othVars, dev, fmtRet, frun>>

\* disk.go:115-116: umount, its failure swallowed by "|| true".
Unmount ==
    /\ fpc = "umount"
    /\ \E e \in NoRunErrs :
        /\ fmtLog' = Append(fmtLog, Cmd("umount", e))
        /\ IF e = Nil
           THEN \E m \in {"", dev.mount} : dev' = [dev EXCEPT !.mount = m]
           ELSE UNCHANGED dev
    /\ fpc' = "sed"
    /\ UNCHANGED <<othVars, floc, fmtRet, frun>>

\* disk.go:118-119: the device's fstab lines are removed.
RemoveFstab ==
    /\ fpc = "sed"
    /\ \E e \in NoRunErrs :
        /\ fmtLog' = Append(fmtLog, Cmd("sed", e))
        /\ dev' = IF e = Nil THEN [dev EXCEPT !.fstab = 0] ELSE dev
    /\ fpc' = "blkid"
    /\ UNCHANGED <<othVars, floc, fmtRet, frun>>

\* disk.go:122-127: the filesystem type; the error of Run is dropped.
CheckFS ==
    /\ fpc = "blkid"
    /\ \E e \in NoRunErrs :
        LET fsType == IF e = Nil THEN dev.fs ELSE "" IN
        /\ fmtLog' = Append(fmtLog, Cmd("blkid", e))
        /\ floc' = [floc EXCEPT !.fsType = fsType, !.attempt = 1]
        /\ fpc' = IF fsType # "xfs" THEN "mkfs" ELSE "mkdir"
    /\ UNCHANGED <<othVars, dev, fmtRet, frun>>

\* disk.go:131-144 with retry.Do (part_002:70-105): one attempt of
\* mkfs.xfs -f. A failure before the last attempt is followed by the wait,
\* which a cancelled context ends with the cancellation. mkfs.xfs refuses a
\* device that is mounted.
Format ==
    /\ fpc = "mkfs"
    /\ \E e \in RunErrs :
        /\ e = Nil => dev.mount = ""
        /\ fmtLog' = Append(fmtLog, Cmd("mkfs", e))
        /\ IF e = Nil
           THEN /\ dev' = [dev EXCEPT !.fs = "xfs"]
                /\ fpc' = "mkdir"
                /\ UNCHANGED <<floc, fmtRet>>
           ELSE /\ UNCHANGED dev
                /\ IF floc.attempt >= DefaultMaxAttempts
                   THEN /\ FormatReturn([kind |-> "failed after attempts",
                                         attempts |-> floc.attempt,
                                         cause |-> [kind |-> "failed to format disk",
                                                    cause |-> e]])
                        /\ UNCHANGED floc
                   ELSE IF e = CtxErr
                   THEN /\ FormatReturn([kind |-> "context cancelled after attempts",
                                         attempts |-> floc.attempt, cause |-> CtxErr])
                        /\ UNCHANGED floc
                   ELSE /\ floc' = [floc EXCEPT !.attempt = @ + 1]
                        /\ UNCHANGED <<fpc, fmtRet>>
    /\ UNCHANGED <<othVars, frun>>

\* disk.go:151-156.
Mkdir ==
    /\ fpc = "mkdir"
    /\ \E e \in RunErrs :
        /\ fmtLog' = Append(fmtLog, Cmd("mkdir", e))
        /\ IF e # Nil
           THEN FormatReturn([kind |-> "failed to create mount directory", cause |-> e])
           ELSE fpc' = "mountpoint" /\ UNCHANGED fmtRet
    /\ UNCHANGED <<othVars, dev, floc, frun>>

\* disk.go:158-163: is the path a mountpoint; the error of Run is dropped.
CheckMount ==
    /\ fpc = "mountpoint"
    /\ \E e \in NoRunErrs :
        LET isMounted == e = Nil /\ dev.mount = mountPath IN
        /\ fmtLog' = Append(fmtLog, Cmd("mountpoint", e))
        /\ floc' = [floc EXCEPT !.isMounted = isMounted]
        /\ fpc' = IF isMounted THEN "grep" ELSE "mount"
    /\ UNCHANGED <<othVars, dev, fmtRet, frun>>

\* disk.go:164-171.
Mount ==
    /\ fpc = "mount"
    /\ \E e \in RunErrs :
        /\ fmtLog' = Append(fmtLog, Cmd("mount", e))
        /\ IF e # Nil
           THEN /\ FormatReturn([kind |-> "failed to mount disk", cause |-> e])
                /\ UNCHANGED dev
           ELSE /\ dev' = [dev EXCEPT !.mount = mountPath]
                /\ fpc' = "grep"
                /\ UNCHANGED fmtRet
    /\ UNCHANGED <<othVars, floc, frun>>

\* disk.go:176-183 and 190-194: is the device in fstab; the error of Run is
\* dropped.
CheckFstab ==
    /\ fpc = "grep"
    /\ \E e \in NoRunErrs :
        LET fstabExists == e = Nil /\ dev.fstab > 0 IN
        /\ fmtLog' = Append(fmtLog, Cmd("grep", e))
        /\ floc' = [floc EXCEPT !.fstabExists = fstabExists]
        /\ IF fstabExists THEN FormatReturn(Nil) ELSE fpc' = "append" /\ UNCHANGED fmtRet
    /\ UNCHANGED <<othVars, dev, frun>>

\* disk.go:184-194.
AddFstab ==
    /\ fpc = "append"
    /\ \E e \in RunErrs :
        /\ fmtLog' = Append(fmtLog, Cmd("append", e))
        /\ IF e # Nil
           THEN /\ FormatReturn([kind |-> "failed to add to fstab", cause |-> e])
                /\ UNCHANGED dev
           ELSE /\ dev' = [dev EXCEPT !.fstab = @ + 1]
                /\ FormatReturn(Nil)
    /\ UNCHANGED <<othVars, floc, frun>>

\* FormatAndMountDisk is called again for the same device and path.
FormatAgain ==
    /\ fpc = "done"
    /\ frun.no = 1
    /\ frun' = [no |-> 2, prev |-> fmtRet]
    /\ fpc' = "lsblk"
    /\ floc' = NoLocals
    /\ fmtRet' = NoRet
    /\ UNCHANGED <<othVars, dev, fmtLog>>

NextFormat ==
    \/ CheckDeviceMount
    \/ Unmount
    \/ RemoveFstab
    \/ CheckFS
    \/ Format
    \/ Mkdir
    \/ CheckMount
    \/ Mount
    \/ CheckFstab
    \/ AddFstab
    \/ FormatAgain
SpecFormat == InitFormat /\ [][NextFormat]_vars

\* ----------------------------------------------- DetectAvailableDisks
MaxDisks == 2
DeviceNames == <<"sda", "sdb", "sdc">>
\* Where a disk may be mounted, as texts of the pieces the code looks for.
Mountpoints == { <<>>, <<"/">>, <<"/data">>, <<"/mnt/", "GlusterFS", "/b1">>,
                 <<"/", "brick", "s">> }
\* A disk of the node: its MOUNTPOINT column, and whether it or one of its
\* partitions is mounted at /.
DiskKinds == { d \in [Mountpoint : Mountpoints, root : BOOLEAN] :
                 d.Mountpoint = <<"/">> => d.root }

\* DetectAvailableDisks has been called for a node with up to MaxDisks disks.
InitDisks ==
    /\ InitSSHIdle
    /\ InitIPIdle
    /\ InitKAIdle
    /\ InitInstIdle
    /\ InitFormatIdle
    /\ InitGeoIdle
    /\ \E n \in 0..MaxDisks : blk \in [1..n -> DiskKinds]
    /\ lpc = [step |-> "list", line |-> 0]
    /\ disks = <<>>
    /\ disksRet = NoRet

\* disk.go:31-39: the list command; one line per disk.
ListDisks ==
    /\ lpc.step = "list"
    /\ \E e \in RunErrs :
        IF e # Nil
        THEN /\ disksRet' = [disks |-> <<>>,
                             err |-> [kind |-> "failed to list disks", cause |-> e]]
             /\ lpc' = [step |-> "done", line |-> 0]
        ELSE /\ lpc' = [step |-> "disk", line |-> 1]
             /\ UNCHANGED disksRet
    /\ UNCHANGED <<sshVars, ipVars, kaVars, instVars, fmtVars, geoVars, blk, disks>>

\* disk.go:88-97 for the error e of Run: is a partition of the disk mounted
\* at /.
isOSDisk(disk, e) == IF e # Nil THEN FALSE ELSE disk.root

\* disk.go:40-82: one line of the list: the OS-disk check, then the disk is
\* accepted when unmounted or mounted at a brick path.
ScanDisk ==
    /\ lpc.step = "disk"
    /\ lpc.line <= Len(blk)
    /\ \E e \in NoRunErrs :
        LET mountpoint == blk[lpc.line].Mountpoint
            disk == [Device |-> DeviceNames[lpc.line], Mountpoint |-> mountpoint] IN
        disks' = IF isOSDisk(blk[lpc.line], e) THEN disks
                 ELSE IF mountpoint = <<>> THEN Append(disks, disk)
                 ELSE IF \/ Contains(mountpoint, "GlusterFS")
                         \/ Contains(mountpoint, "glusterfs")
                         \/ Contains(mountpoint, "brick")
                      THEN Append(disks, disk)
                 ELSE disks
    /\ lpc' = [lpc EXCEPT !.line = @ + 1]
    /\ UNCHANGED <<sshVars, ipVars, kaVars, instVars, fmtVars, geoVars, blk, disksRet>>

\* disk.go:84.
DisksReturn ==
    /\ lpc.step = "disk"
    /\ lpc.line > Len(blk)
    /\ disksRet' = [disks |-> disks, err |-> Nil]
    /\ lpc' = [step |-> "done", line |-> 0]
    /\ UNCHANGED <<sshVars, ipVars, kaVars, instVars, fmtVars, geoVars, blk, disks>>

NextDisks ==
    \/ ListDisks
    \/ ScanDisk
    \/ DisksReturn
SpecDisks == InitDisks /\ [][NextDisks]_vars

\* ======================================= geolocation/geolocation.go
MaxGeoHosts == 2
GeoHosts == {"hA", "hB"}
\* What "curl -s -4 https://api.ipify.org" may print: nothing, the
\* address, the address and a newline.
IPOutputs == { <<>>, <<"203.0.113.", "7">>, <<"203.0.113.", "7", "\n">> }
\* What the ip-api.com request may print: nothing, text that is not JSON,
\* a JSON object with a status.
GeoOutputs == { [json |-> FALSE, text |-> <<>>, status |-> "", country |-> "", city |-> ""],
                [json |-> FALSE, text |-> <<"<html>">>, status |-> "", country |-> "", city |-> ""],
                [json |-> TRUE, text |-> <<"{}">>, status |-> "fail", country |-> "", city |-> ""],
                [json |-> TRUE, text |-> <<"{}">>, status |-> "success", country |-> "NL",
                 city |-> "Utrecht"] }
GeoInfo(publicIP, country, city) == [PublicIP |-> publicIP, Country |-> country, City |-> city]
NoGeoInfo == GeoInfo(<<>>, "", "")
otherVars == <<sshVars, ipVars, kaVars, instVars, fmtVars, diskVars>>

\* DetectGeoLocationBatch has been called with up to MaxGeoHosts hostnames.
InitGeo ==
    /\ InitSSHIdle
    /\ InitIPIdle
    /\ InitKAIdle
    /\ InitInstIdle
    /\ InitFormatIdle
    /\ InitDiskIdle
    /\ hostnames \in SeqUpTo(GeoHosts, MaxGeoHosts)
    /\ gor = [g \in DOMAIN hostnames |-> [pc |-> "none", publicIP |-> <<>>,
                                          geoInfo |-> NoGeoInfo]]
    /\ resultChan = <<>>
    /\ batch = [step |-> "spawn", i |-> 1, results |-> <<>>]
    /\ panicked = FALSE

\* geolocation.go:105-113: the go statement for the next hostname.
GeoSpawn ==
    /\ ~panicked
    /\ batch.step = "spawn"
    /\ IF batch.i <= Len(hostnames)
       THEN /\ gor' = [gor EXCEPT ![batch.i].pc = "ip"]
            /\ batch' = [batch EXCEPT !.i = @ + 1]
       ELSE /\ batch' = [batch EXCEPT !.step = "collect", !.i = 0]
            /\ UNCHANGED gor
    /\ UNCHANGED <<otherVars, hostnames, resultChan, panicked>>

\* geolocation.go:32-40: the public address; the last byte of the output is
\* cut off, and the slice expression panics on an empty output.
GeoPublicIP(g) ==
    /\ ~panicked
    /\ gor[g].pc = "ip"
    /\ \/ \E e \in RunErrs \ {Nil} :
            /\ gor' = [gor EXCEPT ![g].pc = "send",
                                  ![g].geoInfo = GeoInfo(<<"unknown">>, "", "")]
            /\ UNCHANGED panicked
       \/ \E publicIP \in IPOutputs :
            IF Len(publicIP) = 0
            THEN /\ panicked' = TRUE
                 /\ UNCHANGED gor
            ELSE /\ gor' = [gor EXCEPT ![g].pc = "geo",
                                       ![g].publicIP = SubSeq(publicIP, 1, Len(publicIP) - 1)]
                 /\ UNCHANGED panicked
    /\ UNCHANGED <<otherVars, hostnames, resultChan, batch>>

\* geolocation.go:43-90: the lookup of the address.
GeoLookup(g) ==
    /\ ~panicked
    /\ gor[g].pc = "geo"
    /\ \/ \E e \in RunErrs \ {Nil} :
            gor' = [gor EXCEPT ![g].pc = "send",
                               ![g].geoInfo = GeoInfo(gor[g].publicIP, "", "")]
       \/ \E response \in GeoOutputs :
            gor' = [gor EXCEPT ![g].pc = "send",
                               ![g].geoInfo =
                                   IF ~response.json THEN GeoInfo(gor[g].publicIP, "", "")
                                   ELSE IF response.status # "success"
                                   THEN GeoInfo(gor[g].publicIP, "", "")
                                   ELSE GeoInfo(gor[g].publicIP, response.country,
                                                response.city)]
    /\ UNCHANGED <<otherVars, hostnames, resultChan, batch, panicked>>

\* geolocation.go:108-111: the send; the channel holds len(hostnames).
GeoSend(g) ==
    /\ ~panicked
    /\ gor[g].pc = "send"
    /\ Len(resultChan) < Len(hostnames)
    /\ resultChan' = Append(resultChan, [hostname |-> hostnames[g],
                                         geoInfo |-> gor[g].geoInfo])
    /\ gor' = [gor EXCEPT ![g].pc = "done"]
    /\ UNCHANGED <<otherVars, hostnames, batch, panicked>>

\* results[hostname] = geoInfo on a map kept as a sequence of entries.
Put(m, hostname, geoInfo) ==
    Append(SelectSeq(m, LAMBDA r : r.hostname # hostname),
           [hostname |-> hostname, geoInfo |-> geoInfo])

\* geolocation.go:116-119: one receive.
GeoCollect ==
    /\ ~panicked
    /\ batch.step = "collect"
    /\ batch.i < Len(hostnames)
    /\ resultChan # <<>>
    /\ batch' = [batch EXCEPT !.i = @ + 1,
                              !.results = Put(@, Head(resultChan).hostname,
                                              Head(resultChan).geoInfo)]
    /\ resultChan' = Tail(resultChan)
    /\ UNCHANGED <<otherVars, hostnames, gor, panicked>>

\* geolocation.go:116, 121-122.
GeoReturn ==
    /\ ~panicked
    /\ batch.step = "collect"
    /\ batch.i >= Len(hostnames)
    /\ batch' = [batch EXCEPT !.step = "done"]
    /\ UNCHANGED <<otherVars, hostnames, gor, resultChan, panicked>>

NextGeo ==
    \/ GeoSpawn
    \/ \E g \in DOMAIN gor : GeoPublicIP(g)
    \/ \E g \in DOMAIN gor : GeoLookup(g)
    \/ \E g \in DOMAIN gor : GeoSend(g)
    \/ GeoCollect
    \/ GeoReturn
SpecGeo == InitGeo /\ [][NextGeo]_vars

\* ------------------------------------------------------- retry.Do: claims
Min(a, b) == IF a < b THEN a ELSE b

\* Do has returned to its caller in SpecRetry.
DoReturned == pc[RetryCaller] = "do_ret"

\* The waits Do has started follow the policy: InitialBackoff first, then
\* each the previous one times the multiplier, cut to a whole unit, capped at
\* MaxBackoff.
WaitsFollowPolicy(g) ==
    /\ Len(waits[g]) > 0 => waits[g][1] = cfg[g].InitialBackoff
    /\ \A i \in 1..(Len(waits[g]) - 1) :
        waits[g][i + 1] =
            Min((waits[g][i] * cfg[g].MultNum) \div cfg[g].MultDen, cfg[g].MaxBackoff)

\* C6: when every attempt fails and the context is never cancelled, Do and
\* DoWithResult (MaxAttempts >= 1) have called the operation exactly
\* MaxAttempts times and started exactly MaxAttempts-1 backoff waits, and they
\* return an error with the operation label, the attempt count MaxAttempts
\* and the last error of the operation.
C6_ExhaustedAfterMaxAttempts ==
    ( /\ DoReturned
      /\ CtxOf(RetryCaller) \notin cancelled
      /\ doRet[RetryCaller].kind # "ok"
      /\ cfg[RetryCaller].MaxAttempts >= 1 )
    => /\ calls[RetryCaller] = cfg[RetryCaller].MaxAttempts
       /\ Len(waits[RetryCaller]) = cfg[RetryCaller].MaxAttempts - 1
       /\ err[RetryCaller] \in OpErrors
       /\ doRet[RetryCaller] =
            [kind |-> "failed after attempts", op |-> cfg[RetryCaller].Operation,
             attempts |-> cfg[RetryCaller].MaxAttempts, cause |-> err[RetryCaller],
             result |-> "zero"]

\* Three failed attempts under MaxAttempts = 3 have been reported.
C6_Witness ==
    /\ DoReturned
    /\ CtxOf(RetryCaller) \notin cancelled
    /\ cfg[RetryCaller].MaxAttempts = 3
    /\ calls[RetryCaller] = 3
    /\ Len(waits[RetryCaller]) = 2
    /\ doRet[RetryCaller].kind = "failed after attempts"

\* C7: when the operation first succeeds on attempt k, Do has called it
\* exactly k times and started exactly k-1 waits when it returns success; the
\* waits are InitialBackoff first, then each the previous wait times
\* BackoffMultiple capped at MaxBackoff.
C7_SuccessOnAttemptK ==
    (DoReturned /\ doRet[RetryCaller].kind = "ok")
    => /\ doRet[RetryCaller].attempts = calls[RetryCaller]
       /\ calls[RetryCaller] >= 1
       /\ calls[RetryCaller] <= cfg[RetryCaller].MaxAttempts
       /\ Len(waits[RetryCaller]) = calls[RetryCaller] - 1
       /\ err[RetryCaller] = Nil
       /\ WaitsFollowPolicy(RetryCaller)

\* Success on the third attempt with multiplier 2: the second wait is double
\* the first.
C7_Witness ==
    /\ DoReturned
    /\ doRet[RetryCaller].kind = "ok"
    /\ calls[RetryCaller] = 3
    /\ cfg[RetryCaller].MultNum = 2
    /\ waits[RetryCaller] = <<1, 2>>

\* C8: when the context is cancelled while Do is parked in a backoff wait, the
\* next thing Do does is return the cancellation error (it wraps ctx.Err(),
\* not the operation's error) without another call of the operation.
C8_CancelledWaitStep ==
    ( /\ pc[RetryCaller] = "do_wait"
      /\ hist[RetryCaller].sel = "parked"
      /\ CtxOf(RetryCaller) \in cancelled )
    => \/ pc'[RetryCaller] = "do_wait"
       \/ /\ pc'[RetryCaller] = "do_ret"
          /\ calls'[RetryCaller] = calls[RetryCaller]
          /\ waits'[RetryCaller] = waits[RetryCaller]
          /\ doRet'[RetryCaller] =
               [kind |-> "context cancelled after attempts",
                op |-> cfg[RetryCaller].Operation, attempts |-> attempt[RetryCaller],
                cause |-> CtxErr, result |-> "zero"]

C8_CancelledWaitAborts == [][C8_CancelledWaitStep]_vars

\* Do was parked in its second wait when the context was cancelled, and has
\* returned.
C8_Witness ==
    /\ DoReturned
    /\ hist[RetryCaller].sel = "parked"
    /\ CtxOf(RetryCaller) \in cancelled
    /\ calls[RetryCaller] = 2
    /\ err[RetryCaller] \in OpErrors
    /\ doRet[RetryCaller].kind = "context cancelled after attempts"

\* ----------------------------------------------------------- pool: claims
\* The goroutines inside NewClient (pool.go:54).
InNewClient ==
    { g \in Procs : pc[g] \in {"new_client", "do_loop", "fn_handshake", "do_check",
                               "do_wait", "do_ret"} }

\* Get returned the "failed to create ssh client" error to goroutine g.
GetHasFailed(g) ==
    /\ ret[g].kind \in {"error", "run"}
    /\ ret[g].err.kind = "failed to create ssh client"

\* C1: however many Get calls for one host run concurrently, at most one
\* Client is ever created for the host, the created Client is the one in the
\* pool map, and every caller that got a Client got that one.
C1_OneClientPerHost ==
    \A h \in Hosts :
        /\ created[h] <= 1
        /\ created[h] = 1 => Pooled(h)
        /\ \A g \in Procs :
            (host[g] = h /\ cl[g] # 0) => (Pooled(h) /\ cl[g] = clients[h])

\* Two goroutines were inside Get for the same host at the same time; one of
\* them created the Client and both hold it.
C1_Witness ==
    \E p \in overlap :
        /\ Cardinality(p) = 2
        /\ Cardinality(p \cap dialers) = 1
        /\ \A g \in p : cl[g] # 0 /\ cl[g] = clients[host[g]]

\* C2: while one host's connection is being dialed, handshaken or waits in
\* a retry backoff, a Get for a different host can take its next step.
C2_OtherHostsProceed ==
    \A o \in Procs, g \in Procs :
        ( /\ pc[o] \in {"do_loop", "fn_handshake", "do_check", "do_wait"}
          /\ pc[g] \in {"get_read", "get_lock"}
          /\ host[g] # host[o] )
        => ENABLED (GetRead(g) \/ GetLock(g))

\* C3: when RunAll has returned, every goroutine it started has finished, the
\* map has exactly the listed hosts as keys, and each entry is what Pool.Run
\* returned for that host in one of its goroutines: the error of a Get or Run
\* that failed, the output of a command that ran.
C3_RunAllJoinsAll ==
    mainPc = "returned" =>
        /\ \A g \in 1..Len(hosts) : pc[g] = "done"
        /\ DOMAIN runAllRet = { hosts[i] : i \in 1..Len(hosts) }
        /\ \A h \in DOMAIN runAllRet :
            \E g \in 1..Len(hosts) :
                /\ host[g] = h
                /\ ret[g].kind = "run"
                /\ runAllRet[h] = [Stdout |-> ret[g].stdout, Stderr |-> ret[g].stderr,
                                   Err |-> ret[g].err]

\* RunAll over two hosts has returned; one host failed in Get, the other
\* one's command ran to its end.
C3_Witness ==
    /\ mainPc = "returned"
    /\ \E h1 \in DOMAIN runAllRet, h2 \in DOMAIN runAllRet :
        /\ h1 # h2
        /\ runAllRet[h1].Err.kind = "failed to create ssh client"
        /\ runAllRet[h2] = [Stdout |-> "out", Stderr |-> "err", Err |-> Nil]

\* The pairs of independent callers that were inside Get for one host at the
\* same time.
IndependentPairs == { p \in overlap : \A g \in p : op[g] = "Run" }

\* C4 as stated: of two concurrent Get calls of independent callers for one
\* host, only one invokes NewClient, whatever the outcome.
C4_OneAttemptAnyOutcome ==
    \A p \in IndependentPairs : Cardinality(p \cap dialers) <= 1

\* C4 amended: NewClient is never running twice at once, and the second of two
\* concurrent callers invokes it only after the first one's attempt failed;
\* after a successful attempt nobody invokes it again.
C4_OneAttemptUnlessFailed ==
    /\ Cardinality(InNewClient) <= 1
    /\ \A p \in overlap :
        Cardinality(p \cap dialers) = 2 => \E g \in p : GetHasFailed(g)
    /\ \A g \in InNewClient : ~Pooled(host[g])

\* Two independent concurrent callers: the first one's attempt failed, the
\* second one made its own and got a Client.
C4_Witness ==
    \E p \in IndependentPairs :
        /\ Cardinality(p \cap dialers) = 2
        /\ \E g \in p : GetHasFailed(g)
        /\ \E g \in p : cl[g] # 0

\* The classification NewClient's closure made of the error it returned.
Transient(e) ==
    IF e.kind \in {"failed to dial", "failed to dial (non-retryable)"}
    THEN isRetryableNetworkError(e.cause)
    ELSE isRetryableSSHError(e.cause)

\* C5: after a dial or handshake error that is not classified transient, no
\* further attempt follows.
C5_PermanentNotRetriedStep ==
    \A g \in Procs :
        ( /\ pc[g] = "do_wait"
          /\ op[g] \in {"Run", "RunAll"}
          /\ ~Transient(err[g]) )
        => pc'[g] # "do_loop"

C5_PermanentNotRetried == [][C5_PermanentNotRetriedStep]_vars

\* ----------------------------------------------------- Client.Run: claims
\* Client.Run returns from its select in this step.
RunReturns(g) == pc[g] \in {"run_wait", "run_killed"} /\ pc'[g] = "run_ret"

\* The cancellation came before the command's completion, and the other way
\* round.
CtxFirst(g) ==
    \/ hist[g].first = "ctx"
    \/ hist[g].first = "none" /\ CtxOf(g) \in cancelled
CmdFirst(g) == hist[g].first = "cmd"

ReturnsCancellation(g) == killed[g] /\ ret'[g] = RunRet("", "", CtxErr)
ReturnsCommand(g) ==
    /\ errChan[g] # <<>>
    /\ ret'[g] = RunRet("out", "err", Head(errChan[g]))

\* C9 as stated: whenever the context was cancelled while the command was
\* executing, Run returns the cancellation error with empty output, the kill
\* signal sent.
C9_CancelledWhileRunningStep ==
    \A g \in Procs : (RunReturns(g) /\ hist[g].first = "ctx") => ReturnsCancellation(g)

C9_CancelledWhileRunning == [][C9_CancelledWhileRunningStep]_vars

\* C9 amended: the same, unless the command's completion was ready as well
\* when Run entered its select.
C9_CancelledSeenStep ==
    \A g \in Procs :
        (RunReturns(g) /\ hist[g].first = "ctx" /\ hist[g].sel # "several")
        => ReturnsCancellation(g)

C9_CancelledSeen == [][C9_CancelledSeenStep]_vars

\* Run was parked in its select with partial output captured when the
\* context was cancelled; it has sent the kill signal.
C9_Witness ==
    \E g \in Procs :
        /\ pc[g] = "run_killed"
        /\ hist[g] = [first |-> "ctx", sel |-> "parked"]
        /\ killed[g]
        /\ buf[g].stdout = "partial out"

\* C10 as stated: the event that occurred first decides what Run returns.
C10_FirstWinsStep ==
    \A g \in Procs :
        RunReturns(g) =>
            /\ CmdFirst(g) => ReturnsCommand(g)
            /\ CtxFirst(g) => ret'[g].err = CtxErr

C10_FirstWins == [][C10_FirstWinsStep]_vars

\* C10 amended: the first event decides, unless both had occurred when Run
\* entered its select; then either one may.
C10_FirstSeenWinsStep ==
    \A g \in Procs :
        RunReturns(g) =>
            /\ CmdFirst(g) \/ CtxFirst(g)
            /\ hist[g].sel # "several" =>
                /\ CmdFirst(g) => ReturnsCommand(g)
                /\ CtxFirst(g) => ReturnsCancellation(g)
            /\ ReturnsCommand(g) \/ ReturnsCancellation(g)

C10_FirstSeenWins == [][C10_FirstSeenWinsStep]_vars

\* The command completed while Run was parked, the context was cancelled
\* after that, and Run is about to return the command's result.
C10_Witness ==
    \E g \in Procs :
        /\ pc[g] = "run_wait"
        /\ hist[g] = [first |-> "cmd", sel |-> "parked"]
        /\ wake[g] = "errChan"
        /\ CtxOf(g) \in cancelled

\* ------------------------------------------------- unregistered host: claim
NoAuthErr(h) == [kind |-> "no authentication config found for host", host |-> h]

\* C11: a Get for a host without an AuthConfig returns the error naming the
\* host, never invokes NewClient and changes nothing in the pool; Pool.Run
\* returns that error and starts no command.
C11_UnregisteredStep ==
    \A g \in Procs :
        host'[g] \in Hosts \ DOMAIN authConfigs =>
            /\ g \notin dialers'
            /\ pc'[g] \notin {"new_client", "do_loop", "fn_handshake", "do_check", "do_wait",
                              "do_ret", "run_start", "run_select", "run_wait", "run_killed"}
            /\ cmd'[g] = "none" /\ cl'[g] = 0
            /\ ~(host'[g] \in DOMAIN clients')
            /\ pc'[g] # pc[g] => <<clients', mu', created', nextClient'>> =
                                 <<clients, mu, created, nextClient>>
            /\ pc'[g] = "get_ret" => ret'[g] = GetErr(NoAuthErr(host'[g]))
            /\ pc'[g] \in {"run_ret", "done"} => ret'[g] = RunRet("", "", NoAuthErr(host'[g]))

C11_UnregisteredHost == [][C11_UnregisteredStep]_vars

\* Pool.Run for the unregistered host has returned while another host is
\* pooled.
C11_Witness ==
    \E g \in Procs :
        /\ host[g] = "hC"
        /\ pc[g] = "run_ret"
        /\ ret[g] = RunRet("", "", NoAuthErr("hC"))
        /\ DOMAIN clients # {}

\* ------------------------------------------------------ Pool.Close: claims
\* The Clients in the pool map.
PooledClients == { clients[h] : h \in DOMAIN clients }

\* C12: a Pool.Close calls Close on every pooled Client whether or not some
\* of these calls fail, returns nil when none failed and otherwise one error
\* that lists every failure, and leaves the map empty; a Client that gets
\* into the map afterwards is not one of the closed ones.
C12_CloseStep ==
    /\ closes' = closes + 1 =>
        /\ closedClients' = closedClients \cup PooledClients
        /\ clients' = <<>>
        /\ closeFailed' \subseteq DOMAIN clients
        /\ closeRet' = IF closeFailed' = {} THEN Nil
                       ELSE [kind |-> "errors closing connections", hosts |-> closeFailed']
    /\ \A h \in DOMAIN clients' : clients'[h] \notin closedClients'

C12_CloseAll == [][C12_CloseStep]_vars

\* Close found two pooled Clients; the Close of one of them failed, and both
\* were closed.
C12_Witness ==
    /\ closes = 1
    /\ Cardinality(closedClients) = 2
    /\ Cardinality(closeFailed) = 1
    /\ closeRet.kind = "errors closing connections"
    /\ clients = <<>>

\* The Clients NewClient has returned that have not been closed.
LiveClients == (1..(nextClient - 1)) \ closedClients

\* C13: the live Clients are exactly the entries of the pool map, one per
\* host, and no step other than a Close removes or replaces an entry.
C13_EntriesStep ==
    /\ LiveClients' = { clients'[h] : h \in DOMAIN clients' }
    /\ \A h1 \in DOMAIN clients', h2 \in DOMAIN clients' :
        clients'[h1] = clients'[h2] => h1 = h2
    /\ closes' = closes =>
        \A h \in DOMAIN clients : h \in DOMAIN clients' /\ clients'[h] = clients[h]

C13_StableEntries == [][C13_EntriesStep]_vars

\* A command on a pooled host ended with a transport failure, another one's
\* call was cancelled, and both entries are still the Clients Get returned.
C13_Witness ==
    /\ closes = 0
    /\ \E g \in Procs, o \in Procs :
        /\ pc[g] = "run_ret" /\ ret[g].err = [kind |-> "transport failure"]
        /\ pc[o] = "run_ret" /\ ret[o].err = CtxErr
        /\ host[g] # host[o]
        /\ \A q \in {g, o} : Pooled(host[q]) /\ clients[host[q]] = cl[q]

\* ---------------------------------------------- RunAll cancellation: claim
\* The error is, or wraps, the cancellation error (the dial error of a
\* cancelled context matches it as well).
RECURSIVE WrapsCancel(_)
WrapsCancel(e) ==
    \/ e = CtxErr
    \/ e = DialCancelled
    \/ "cause" \in DOMAIN e /\ WrapsCancel(e.cause)

RunAllCancelled == "ctxA" \in cancelled
Workers == 1..Len(hosts)

\* Goroutine g leaves the retry loop, or Client.Run, in this step.
LeavesRetryLoop(g) ==
    pc[g] \in {"do_loop", "fn_handshake", "do_check", "do_wait"} /\ pc'[g] = "do_ret"
LeavesClientRun(g) ==
    pc[g] \in {"run_start", "run_select", "run_wait", "run_killed"} /\ pc'[g] = "run_ret"

\* C14 as stated, the results: an operation of the fan-out that is in its
\* retry loop or in Client.Run while the context is cancelled ends with the
\* cancellation error, unless its command completed.
C14_AllCancelledStep ==
    \A g \in Workers :
        RunAllCancelled =>
            /\ LeavesRetryLoop(g) => (doRet'[g].kind = "ok" \/ WrapsCancel(doRet'[g]))
            /\ LeavesClientRun(g) => (ReturnsCommand(g) \/ WrapsCancel(ret'[g].err))

C14_WaitsCancelledStep ==
    \A g \in Workers :
        /\ (RunAllCancelled /\ pc[g] = "do_wait" /\ pc'[g] # "do_wait")
           => (pc'[g] = "do_ret" /\ WrapsCancel(doRet'[g]) /\ calls'[g] = calls[g])
        /\ (RunAllCancelled /\ LeavesClientRun(g) /\ cmd[g] = "running")
           => ReturnsCancellation(g)
        /\ (pc[g] = "do_ret" /\ pc'[g] = "get_ret" /\ WrapsCancel(doRet[g]))
           => WrapsCancel(ret'[g].err)
        /\ (pc[g] = "get_ret" /\ pc'[g] = "run_ret") => ret'[g].err = ret[g].err
        /\ (pc[g] = "run_ret" /\ pc'[g] = "done") => results'[host[g]].Err = ret[g].err

C15_ClassifyRule ==
    \A i \in DOMAIN ipRes.class :
        LET a == ips[1].oct[1]
            b == ips[1].oct[2]
            c == ipRes.class[i]
            overlay == a = 100 /\ 64 <= b /\ b <= 127
            private == a = 10 \/ (a = 172 /\ 16 <= b /\ b <= 31) \/ (a = 192 /\ b = 168)
            loop == a = 127
        IN /\ c \in {ClassCGNAT, ClassRFC1918, ClassLoopback, ClassOther}
           /\ c = ClassCGNAT <=> overlay
           /\ c = ClassRFC1918 <=> private
           /\ c = ClassLoopback <=> loop
           /\ c = ClassOther <=> ~(overlay \/ private \/ loop)
           /\ c = ipRes.class[1]

\* 100.127.1.1, the last second octet of the overlay range, was classified
\* twice.
C15_Witness ==
    /\ ips = <<V4(100, 127, 1, 1)>>
    /\ ipRes.class = <<ClassCGNAT, ClassCGNAT>>

AllUpV4(l) == \A i \in DOMAIN l : l[i].up /\ To4(l[i]) # <<>>

\* C16: the class values order the addresses as selection does: among IPv4
\* addresses on up interfaces with nothing excluded, the selected address has
\* the largest class value.
C16_ClassOrderIsPrecedence ==
    (ipRes.local # NoRet /\ dockerSubnets = {} /\ ips # <<>> /\ AllUpV4(ips))
    => \A j \in DOMAIN ips : ClassifyIP(ipRes.local.ip) >= ClassifyIP(ips[j])

\* The precedence the claims give the classes.
PrecRank(e) ==
    IF ClassifyIP(e) = ClassCGNAT THEN 4
    ELSE IF ClassifyIP(e) = ClassRFC1918 THEN 3
    ELSE IF ClassifyIP(e) = ClassOther THEN 2
    ELSE 1

\* The candidates selection may choose from: the IPv4 addresses outside the
\* Docker subnets that are not loopback (local: on up interfaces).
Eligible(l, local) ==
    { l[i] : i \in { k \in DOMAIN l :
        /\ To4(l[k]) # <<>>
        /\ ~IsLoopback(l[k])
        /\ ~IsInDockerSubnet(l[k], dockerSubnets)
        /\ local => l[k].up } }
Loopbacks(l) == { l[i] : i \in { k \in DOMAIN l : l[k].up /\ IsLoopback(l[k]) } }

Orderings(l) ==
    { [i \in DOMAIN l |-> l[f[i]]] :
        f \in { g \in [DOMAIN l -> DOMAIN l] : \A i, j \in DOMAIN l : g[i] = g[j] => i = j } }

\* The result is a candidate of the highest precedence among the candidates.
BestOf(r, cands) == r \in cands /\ \A e \in cands : PrecRank(r) >= PrecRank(e)

\* C17: selection returns a candidate of the highest precedence class that
\* has one: Overlay, else Private, else Other, else (local) a loopback
\* address, else nothing; and for every order of the list the result is of
\* the same class.
C17_HighestClass ==
    (ipRes.local # NoRet /\ ipRes.remote # NoRet) =>
        /\ IF Eligible(ips, FALSE) # {}
           THEN BestOf(ipRes.remote, Eligible(ips, FALSE))
           ELSE ipRes.remote = NoIP
        /\ IF Eligible(ips, TRUE) # {}
           THEN BestOf(ipRes.local.ip, Eligible(ips, TRUE)) /\ ipRes.local.err = Nil
           ELSE IF Loopbacks(ips) # {}
           THEN ipRes.local.ip \in Loopbacks(ips) /\ ipRes.local.err = Nil
           ELSE ipRes.local.ip = NoIP /\ ipRes.local.err # Nil
        /\ \A q \in Orderings(ips) :
            /\ ClassifyIP(SelectBestIP(q, dockerSubnets)) = ClassifyIP(ipRes.remote)
            /\ (SelectBestIP(q, dockerSubnets) = NoIP) = (ipRes.remote = NoIP)
            /\ ClassifyIP(detectPrimaryWithExclusions(q, dockerSubnets).ip) =
               ClassifyIP(ipRes.local.ip)

\* A public, a private and an overlay address in this order: both modes chose
\* the overlay one.
C17_Witness ==
    /\ ips = <<V4(8, 8, 8, 8), V4(10, 0, 0, 5), V4(100, 70, 1, 1)>>
    /\ dockerSubnets = {}
    /\ ipRes.remote = V4(100, 70, 1, 1)
    /\ ipRes.local = [ip |-> V4(100, 70, 1, 1), err |-> Nil]

\* C18: no selection returns an address inside an excluded subnet.
C18_NeverExcluded ==
    /\ ipRes.local # NoRet => ~IsInDockerSubnet(ipRes.local.ip, dockerSubnets)
    /\ ipRes.remote # NoRet => ~IsInDockerSubnet(ipRes.remote, dockerSubnets)
    /\ ipRes.info # NoRet => ~IsInDockerSubnet(ipRes.info, dockerSubnets)

AllUp(l) == \A i \in DOMAIN l : l[i].up

\* C19 as stated: for the same addresses, all on up interfaces, remote and
\* local selection return the same address.
C19_RemoteEqualsLocal ==
    (ipRes.local # NoRet /\ ipRes.remote # NoRet /\ AllUp(ips))
    => ipRes.remote = ipRes.local.ip

\* C19 amended: they return the same address whenever SelectBestIP returns
\* one; when it returns none, local selection returns a loopback address or
\* fails.
C19_RemoteEqualsLocalButLoopback ==
    (ipRes.local # NoRet /\ ipRes.remote # NoRet /\ AllUp(ips))
    => IF ipRes.remote # NoIP
       THEN ipRes.local = [ip |-> ipRes.remote, err |-> Nil]
       ELSE \/ ipRes.local.err # Nil /\ Loopbacks(ips) = {}
            \/ ipRes.local.err = Nil /\ IsLoopback(ipRes.local.ip)

\* An address of a Docker subnet listed before a private one: both modes
\* skipped it.
C19_Witness ==
    /\ ips = <<V4(172, 17, 0, 2), V4(10, 0, 0, 5)>>
    /\ dockerSubnets = {Subnet(172, 17, 0, 0, 16)}
    /\ ipRes.remote = V4(10, 0, 0, 5)
    /\ ipRes.local = [ip |-> V4(10, 0, 0, 5), err |-> Nil]

\* The commands of the general scan.
ScanCmds == {listCmd, inspectCmd, HostnameI}
Configured == ToLower(TrimSpace(overlayProvider)) \in {netbird, tailscale}

\* The provider reported a usable address: the status command succeeded, its
\* output is JSON, and the address read from it is not empty.
ReportedAddress(i) ==
    /\ i.reply.err = Nil
    /\ i.reply.json
    /\ i.reply.val # <<>>
    /\ i.cmd = NetbirdStatus => SplitSlashFirst(i.reply.val) # <<>>

\* The provider reported nothing: an error, no JSON, or no address.
ReportedNothing(i) == i.reply.err # Nil \/ ~i.reply.json \/ i.reply.val = <<>>

AddressOf(i) == IF i.cmd = NetbirdStatus THEN SplitSlashFirst(i.reply.val) ELSE i.reply.val[1]

ScanDone == \E k \in DOMAIN issued : issued[k].cmd = listCmd

StatusCmds == {NetbirdStatus, TailscaleStatus}
\* Where the system hostname was asked for.
HostnameAt == { k \in DOMAIN issued : issued[k].cmd = HostnameF }

\* What the first status reply gives ResolveNodeAddressSSH: the name, else
\* the address, else nothing (<<>>).
OverlayAnswer(i) ==
    IF i.reply.err # Nil \/ ~i.reply.json THEN <<>>
    ELSE IF i.reply.name # <<>>
    THEN (IF i.cmd = TailscaleStatus THEN TrimSuffixDot(i.reply.name) ELSE i.reply.name)
    ELSE IF i.reply.val # <<>> THEN AddressOf(i)
    ELSE <<>>

\* The system hostname of the reply, if it is an acceptable one.
HostnameAnswer(i) ==
    IF i.reply.err = Nil /\ TrimSpaceText(i.reply.val) \notin {<<>>, localhost}
    THEN TrimSpaceText(i.reply.val)
    ELSE <<>>

Overridden(v) == v # <<>> /\ ~IsAutoValue(v)
Resolved == deployment.dep.Nodes

\* C22: PrepareKeepalivedDeployment gives a node without a priority override
\* at index i (from 0) the priority base - i, a node without a state override
\* MASTER at index 0 and BACKUP elsewhere, whatever the other nodes override;
\* an overridden node gets its own number or state; with no overrides the
\* priorities are strictly descending.
C22_PriorityByIndex ==
    Prepared =>
        /\ Len(Resolved) = Len(kaCfg.nodes)
        /\ \A k \in DOMAIN Resolved :
            LET n == kaCfg.nodes[k] IN
            /\ ~Overridden(n.Priority) => Resolved[k].Priority = KeepalivedBasePriority - (k - 1)
            /\ (Overridden(n.Priority) /\ Atoi(n.Priority).ok) =>
                    Resolved[k].Priority = Atoi(n.Priority).n
            /\ ~Overridden(n.State) => Resolved[k].State = (IF k = 1 THEN MASTER ELSE BACKUP)
            /\ Overridden(n.State) => Resolved[k].State = ToUpper(n.State)
        /\ (\A k \in DOMAIN kaCfg.nodes :
                ~Overridden(kaCfg.nodes[k].Priority) /\ ~Overridden(kaCfg.nodes[k].State))
            => \A j, k \in DOMAIN Resolved : j < k => Resolved[j].Priority > Resolved[k].Priority

\* Three nodes without overrides got [100, 99, 98] and [MASTER, BACKUP,
\* BACKUP].
C22_Witness ==
    /\ Prepared
    /\ kaCfg.nodes = ThreeNodes
    /\ [k \in 1..3 |-> Resolved[k].Priority] = <<100, 99, 98>>
    /\ [k \in 1..3 |-> Resolved[k].State] = <<MASTER, BACKUP, BACKUP>>

\* C23: every node configuration PrepareKeepalivedDeployment produces has a
\* priority in 1..254 and the state MASTER or BACKUP.
C23_PriorityAndStateValid ==
    Prepared => \A k \in DOMAIN Resolved :
        /\ Resolved[k].Priority \in 1..254
        /\ Resolved[k].State \in {MASTER, BACKUP}

LastOctet(t) == ParseIP(t)[4]
Issues == { k \in DOMAIN probeLog : probeLog[k].ev = "issue" }
Returns == { k \in DOMAIN probeLog : probeLog[k].ev = "return" }

\* C24: the probes are run one at a time, highest candidate first: a probe is
\* started only when the one before has returned and found its address in
\* use, each started probe is for a lower address than the one before, the
\* first one .254 (.253 for an interface at .254); a probe returning unused is
\* the last one and its address is the virtual IP.
C24_ProbesInTurn ==
    /\ \A k \in DOMAIN probeLog :
        /\ (k % 2 = 1) = (k \in Issues)
        /\ k \in Returns => probeLog[k].ip = probeLog[k - 1].ip
        /\ (k \in Issues /\ k > 1) =>
            /\ probeLog[k - 1].err = Nil
            /\ LastOctet(probeLog[k].ip) < LastOctet(probeLog[k - 2].ip)
        /\ (k \in Returns /\ probeLog[k].err = ExitError) =>
            /\ k = Len(probeLog)
            /\ prep.vip = probeLog[k].ip
            /\ Prepared => deployment.dep.VIP = probeLog[k].ip
    /\ probeLog # <<>> =>
        LastOctet(probeLog[1].ip) =
            (IF LastOctet(prep.ifaceIP) = FirstCandidate
             THEN FirstCandidate - 1 ELSE FirstCandidate)
    /\ (kpc = "probing") = (Len(probeLog) % 2 = 1)

\* .254 was in use and .253 free: .253 is the virtual IP and .252 was not
\* probed.
C24_Witness ==
    /\ Prepared
    /\ Len(probeLog) = 4
    /\ LastOctet(probeLog[1].ip) = 254 /\ probeLog[2].err = Nil
    /\ LastOctet(probeLog[3].ip) = 253 /\ probeLog[4].err = ExitError
    /\ LastOctet(deployment.dep.VIP) = 253

\* The network's first three octets as a dotted text.
DottedPrefix(network) == Itoa(network[1]) \o <<".">> \o Itoa(network[2]) \o <<".">> \o Itoa(network[3])
AllInUse ==
    /\ probeLog # <<>>
    /\ kpc \notin {"probe", "probing"}
    /\ \A k \in Returns : probeLog[k].err = Nil

\* C25: when every probed candidate was in use, PrepareKeepalivedDeployment
\* returns no deployment and an error that names the probed range,
\* a.b.c.245-a.b.c.254.
C25_ExhaustedRangeNamed ==
    AllInUse =>
        /\ kpc = "done"
        /\ deployment.dep = NoRet
        /\ deployment.err.kind = "failed to auto-detect unused VIP"
        /\ deployment.err.cause.kind = "no unused IP found in range"
        /\ deployment.err.cause.text =
            DottedPrefix(Network(prep.ifaceIP, prep.ifaceCIDR)) \o <<".245-">>
            \o DottedPrefix(Network(prep.ifaceIP, prep.ifaceCIDR)) \o <<".254">>

Prefix == Atoi(prep.ifaceCIDR).n
\* ip | ^mask.
Broadcast(ip, prefix) == [k \in 1..4 |-> Mask(ip, prefix)[k] + (255 - MaskOctet(prefix, k))]

\* C26: every probed candidate lies in the interface's subnet, within the ten
\* addresses below its broadcast address, and is neither the interface's
\* address, nor the broadcast address, nor the network address.
C26_CandidatesInSubnet ==
    \A k \in Issues :
        LET c == ParseIP(probeLog[k].ip)
            ip == ParseIP(prep.ifaceIP)
            top == Broadcast(ip, Prefix)
        IN /\ Mask(c, Prefix) = Mask(ip, Prefix)
           /\ c # ip
           /\ c # top
           /\ c # Mask(ip, Prefix)
           /\ SubSeq(c, 1, 3) = SubSeq(top, 1, 3)
           /\ top[4] - c[4] \in 1..10

Plan(d) == [Interface |-> d.Interface, VIP |-> d.VIP,
            Nodes |-> [k \in DOMAIN d.Nodes |-> <<d.Nodes[k].Priority, d.Nodes[k].State>>]]
SecondRunDone == run.no = 2 /\ kpc = "done"

\* C27: a second run after the first one was deployed, with every command
\* executing, returns the same interface, priorities, states and virtual IP.
C27_RerunSamePlan ==
    (SecondRunDone /\ run.deployed /\ ~lan.flaky) =>
        /\ deployment.err = Nil
        /\ Plan(deployment.dep) = Plan(run.prev.dep)

\* C28 as stated: a second run with the same configuration and the same
\* probe answers returns a deployment equal in every field.
C28_RerunEqual ==
    (SecondRunDone /\ ~run.deployed /\ ~lan.flaky) => deployment = run.prev

GeneratedSecret == IsAutoValue(kaCfg.AuthPass) \/ kaCfg.AuthPass = <<>>
NoSecret(r) == IF r.dep = NoRet \/ ~r.dep.Enabled THEN r ELSE [r EXCEPT !.dep.AuthPass = <<>>]

\* C28 amended: such a second run returns the same error or a deployment
\* equal in every field but the shared secret, which is equal too when it is
\* configured and otherwise the hexadecimal text of fresh random bytes.
C28_RerunEqualButSecret ==
    /\ (SecondRunDone /\ ~run.deployed /\ ~lan.flaky) =>
        /\ NoSecret(deployment) = NoSecret(run.prev)
        /\ ~GeneratedSecret => deployment = run.prev
    /\ (Prepared /\ GeneratedSecret) =>
        \E bytes \in RandomBytes : deployment.dep.AuthPass = EncodeToString(bytes)
    /\ (Prepared /\ ~GeneratedSecret) => deployment.dep.AuthPass = kaCfg.AuthPass

\* Two runs over an unchanged network returned deployments that differ in the
\* generated secret only.
C28_Witness ==
    /\ SecondRunDone /\ ~run.deployed /\ ~lan.flaky
    /\ Prepared
    /\ GeneratedSecret
    /\ deployment.dep.AuthPass # run.prev.dep.AuthPass
    /\ NoSecret(deployment) = NoSecret(run.prev)

\* Reading keepalived.conf back: the first line at or after `from` that starts
\* with the key, without the key.
LinesWith(conf, key, from) == { i \in from..Len(conf) : HasPrefix(conf[i], <<key>>) }
FirstLine(conf, key, from) ==
    LET with == LinesWith(conf, key, from)
    IN CHOOSE i \in with : \A j \in with : i <= j
ValueOf(conf, key, from) == Tail(conf[FirstLine(conf, key, from)])
InstanceAt(conf) == FirstLine(conf, "vrrp_instance ", 1)
ReadState(conf) == ValueOf(conf, "    state ", InstanceAt(conf))
ReadPriority(conf) == Atoi(ValueOf(conf, "    priority ", InstanceAt(conf)))
ReadVIPCIDR(conf) ==
    Tail(conf[FirstLine(conf, "    virtual_ipaddress {", InstanceAt(conf)) + 1])
ReadRouterID(conf) == Atoi(ValueOf(conf, "    virtual_router_id ", InstanceAt(conf)))
\* router_id <instance>_<id>: the text after the last "_".
ReadGlobalRouterID(conf) ==
    LET parts == Split(ValueOf(conf, "    router_id ", FirstLine(conf, "global_defs {", 1)), "_")
    IN Atoi(parts[Len(parts)])

\* The deployment the files were written from.
Written == IF run.no = 2 THEN run.prev.dep ELSE deployment.dep

C30_ProbeMustRun ==
    \A k \in Returns :
        /\ prep.vip = probeLog[k].ip => probeLog[k].err = ExitError
        /\ (probeLog[k].err \in TransportErrors /\ kpc = "done") => deployment.err # Nil

\* ------------------------------------------------ installer: claims
Steps == <<"install", "write", "script", "restart">>
StepNo(step) == CHOOSE i \in DOMAIN Steps : Steps[i] = step

\* C31: the commands InstallAndConfigureKeepalived has run are, node after
\* node in list order, install, write keepalived.conf, write the health-check
\* script, restart: each command follows a successful one (the step before on
\* the same node, or the restart of the node before), so a restart is run only
\* after the node's three other steps succeeded; a failed command is the last
\* command run, and the call then returns an error naming that node; a call
\* that returns nil has run all four steps on every node.
C31_StepsInOrder ==
    /\ \A i \in DOMAIN cmdLog :
        LET c == cmdLog[i] IN
        /\ c.host = deployment.dep.Nodes[c.node].Hostname
        /\ IF i = 1 THEN c.node = 1 /\ c.step = "install"
           ELSE LET b == cmdLog[i - 1] IN
                /\ b.err = Nil
                /\ IF b.step = "restart"
                   THEN c.node = b.node + 1 /\ c.step = "install"
                   ELSE c.node = b.node /\ StepNo(c.step) = StepNo(b.step) + 1
        /\ c.err # Nil =>
            /\ i = Len(cmdLog)
            /\ ipc.step = "done"
            /\ installRet.kind = "failed to configure Keepalived on"
            /\ installRet.host = c.host
    /\ (ipc.step = "done" /\ installRet = Nil /\ deployment.dep.Enabled) =>
        /\ Len(cmdLog) = 4 * Len(deployment.dep.Nodes)
        /\ \A i \in DOMAIN cmdLog : cmdLog[i].err = Nil
    /\ (ipc.step = "done" /\ ~deployment.dep.Enabled) => cmdLog = <<>> /\ installRet = Nil
    /\ ipc.step = "done" => installRet # NoRet

\* The first of three nodes was configured and restarted, the second one's
\* keepalived.conf could not be written: the call failed there, and no
\* command was run on the third.
C31_Witness ==
    /\ deployment.dep.Enabled
    /\ Len(deployment.dep.Nodes) = 3
    /\ ipc.step = "done"
    /\ Len(cmdLog) = 6
    /\ cmdLog[4].step = "restart" /\ cmdLog[4].err = Nil
    /\ cmdLog[6].node = 2 /\ cmdLog[6].step = "write" /\ cmdLog[6].err # Nil
    /\ installRet.host = <<"n2">>

\* ---------------------------------------------- retry.Do: further claims
\* C32: every backoff wait retry.Do / DoWithResult starts is at most the
\* policy's MaxBackoff, the first one included.
C32_WaitsWithinCap ==
    \A i \in DOMAIN waits[RetryCaller] :
        waits[RetryCaller][i] <= cfg[RetryCaller].MaxBackoff

\* C33: retry.Do / DoWithResult never calls the operation while its context
\* is cancelled, and a Do that returns while its context is cancelled returns
\* the cancellation.
C33_NoAttemptAfterCancel ==
    [][/\ calls'[RetryCaller] # calls[RetryCaller] => CtxOf(RetryCaller) \notin cancelled
       /\ (pc[RetryCaller] # "do_ret" /\ pc'[RetryCaller] = "do_ret"
           /\ CtxOf(RetryCaller) \in cancelled)
          => /\ doRet'[RetryCaller].kind = "context cancelled after attempts"
             /\ doRet'[RetryCaller].cause = CtxErr]_vars

\* C35: a retry.Do / DoWithResult that has returned has called the operation
\* at least once; it returns success only when the last call succeeded, and a
\* failure other than cancellation carries the error of the last call.
C35_CalledAtLeastOnce ==
    DoReturned =>
        /\ calls[RetryCaller] >= 1
        /\ doRet[RetryCaller].kind = "ok" => err[RetryCaller] = Nil
        /\ doRet[RetryCaller].kind \notin {"ok", "context cancelled after attempts"} =>
            /\ err[RetryCaller] \in OpErrors
            /\ doRet[RetryCaller].cause = err[RetryCaller]

\* ----------------------------------------------- Pool: further claims
\* C34: a goroutine inside Client.Run, whether about to open its session or
\* with its command running, holds a Client that Pool.Close has not closed.
C34_NoUseAfterClose ==
    \A g \in Procs :
        (pc[g] = "run_start" \/ cmd[g] = "running") => cl[g] \notin closedClients

\* ------------------------------------------- Keepalived: further claims
Masters == { k \in DOMAIN Resolved : Resolved[k].State = MASTER }
Leads(k) == \A j \in DOMAIN Resolved : j # k => Resolved[k].Priority > Resolved[j].Priority

\* C36 as stated: in every enabled deployment exactly one node is MASTER and
\* its priority is strictly greater than every other node's, whatever the
\* overrides.
C36_OneMaster ==
    Prepared => \E k \in DOMAIN Resolved : Masters = {k} /\ Leads(k)

\* C36 amended: the MASTER nodes are the first node, unless its state is
\* overridden, and the nodes whose state override reads MASTER in any case;
\* when no node overrides its state or priority that is the first node alone
\* and its priority is strictly greater than every other node's.
C36_OneMasterByDefault ==
    Prepared =>
        /\ Masters = { k \in DOMAIN Resolved :
                        IF Overridden(kaCfg.nodes[k].State)
                        THEN ToUpper(kaCfg.nodes[k].State) = MASTER
                        ELSE k = 1 }
        /\ (\A k \in DOMAIN kaCfg.nodes :
                ~Overridden(kaCfg.nodes[k].Priority) /\ ~Overridden(kaCfg.nodes[k].State))
            => Masters = {1} /\ Leads(1)

\* The longest list of nodes, none with an override, was resolved: the first
\* node alone is MASTER and leads.
C36_Witness ==
    /\ Prepared
    /\ Len(Resolved) = ManyNodes
    /\ Masters = {1}
    /\ Leads(1)

\* --------------------------------------- address detection: further claims
\* The addresses DetectNetworkInfoSSH may return, in scan order: IPv4, not
\* 127.*, outside the Docker subnets.
Listed == SelectSeq(ips, LAMBDA e : To4(e) # <<>> /\ To4(e)[1] # 127
                                    /\ ~IsInDockerSubnet(e, dockerSubnets))
ListedOf(class) == SelectSeq(Listed, LAMBDA e : ClassifyIP(e) = class)

\* C37: DetectNetworkInfoSSH returns the first listed Overlay address, when
\* there is none the first listed Private address, and nil when there is
\* neither; and whenever SelectBestIP returns an Overlay or Private address
\* for the same list, it is the same address.
C37_InfoFirstOfBestClass ==
    (ipRes.info # NoRet /\ ipRes.remote # NoRet) =>
        /\ ipRes.info =
            (IF ListedOf(ClassCGNAT) # <<>> THEN ListedOf(ClassCGNAT)[1]
             ELSE IF ListedOf(ClassRFC1918) # <<>> THEN ListedOf(ClassRFC1918)[1]
             ELSE NoIP)
        /\ (ipRes.remote # NoIP /\ ClassifyIP(ipRes.remote) \in {ClassCGNAT, ClassRFC1918})
            => ipRes.info = ipRes.remote

\* ------------------------------------------------ gluster/disk.go: claims
SecondRun == { i \in DOMAIN fmtLog : fmtLog[i].run = 2 }

\* C38: FormatAndMountDisk runs mkfs only on a device that does not hold an
\* XFS filesystem, whatever its check commands returned; and a call after a
\* successful one runs no mkfs, no mount and no fstab append.
C38_NeverFormatsXFS ==
    /\ \A i \in DOMAIN fmtLog : fmtLog[i].cmd = "mkfs" => fmtLog[i].fsBefore # "xfs"
    /\ (frun.no = 2 /\ frun.prev = Nil)
        => \A i \in SecondRun : fmtLog[i].cmd \notin {"mkfs", "mount", "append"}

Returned == IF disksRet = NoRet THEN {}
            ELSE { disksRet.disks[i] : i \in DOMAIN disksRet.disks }
Line(device) == CHOOSE i \in DOMAIN DeviceNames : DeviceNames[i] = device

\* C39: DetectAvailableDisks returns no disk that has a partition mounted
\* at /, whatever the OS-disk checks returned, and only disks that are
\* unmounted or mounted at a brick path.
C39_NoOSDiskReturned ==
    \A d \in Returned :
        /\ ~blk[Line(d.Device)].root
        /\ \/ d.Mountpoint = <<>>
           \/ \E w \in {"GlusterFS", "glusterfs", "brick"} : Contains(d.Mountpoint, w)

\* ------------------------------------------------- geolocation: claims
Requested == { hostnames[g] : g \in DOMAIN hostnames }
Keyed == { batch.results[k].hostname : k \in DOMAIN batch.results }

\* C40: DetectGeoLocationBatch always returns with an entry for every
\* requested hostname, whatever the commands returned on each host: no
\* goroutine panics, the batch is never left unable to go on before it has
\* returned, and what it returns names every hostname.
C40_BatchAlwaysReturns ==
    /\ ~panicked
    /\ batch.step # "done" => ENABLED NextGeo
    /\ batch.step = "done" => Requested \subseteq Keyed

====
